---- MODULE Spec2Model ----
(***************************************************************************)
(* State-machine model of the Venge mod asset editor: the in-memory asset  *)
(* registry (assetData / editedAssets), the selection trackers, the bulk   *)
(* operation pipelines and the session export / import.                    *)
(*                                                                         *)
(* The repository holds several generations of the same modules.  Each     *)
(* specification below assembles the actions of one generation:            *)
(*   SpecReg      js/old/fileHandling.js (registry with exclusion flag)    *)
(*   SpecSession  the same registry with session export and import         *)
(*   SpecSel      js/selection.js (select-only tracker)                    *)
(*   SpecTrack    select/exclude tracker + js/old/fileHandling.js          *)
(*   SpecBulk     bulk colour change of js/bulkOperations.js               *)
(*   SpecAudio    bulk audio replacement of js/bulkOperations.js           *)
(*   SpecTrim     the audio replacement with its trim sliders              *)
(*   SpecMp3      the MP3 conversion of the audio replacement, by blocks   *)
(*   SpecBlend    the pixel loop of the bulk colour change                 *)
(*   SpecBulkExcl bulk colour change with exclusions made meanwhile        *)
(*   SpecAdj      bulk image adjustments over the registry without the     *)
(*                exclusion flag                                           *)
(*   SpecImport   session import of the registry without the exclusion     *)
(*                flag                                                     *)
(*   SpecLoad     the loader of that generation, line by line              *)
(*   SpecUpload   image replacement and session import over the registry  *)
(*                without the exclusion flag                               *)
(*   SpecTexture  texture adjustments of the texture-only generation       *)
(*   SpecZip      the ZIP archive of js/export.js over the registry with   *)
(*                exclusion flag                                           *)
(*   SpecGenerate texture generation of the modal of js/ui.js              *)
(*   SpecExclRace exclusions and colour changes over one image asset       *)
(*   SpecExclFair the same, with the deferred callbacks run eventually     *)
(*   SpecOnDemand the on-demand generation: selection, loading, modal      *)
(*   SpecOnDemandOps  the same with the texture operations of the modal    *)
(*   SpecOnDemandFair the same, with every image load reporting            *)
(***************************************************************************)
EXTENDS Integers, Sequences, FiniteSets, TLC

(***************************************************************************)
(* Bounds of the model.                                                    *)
(***************************************************************************)
\* base64 payloads are abstracted to the numbers 0..MaxByte
MaxByte == 1

\* deferred callbacks that may wait at one time
MaxPending == 2

\* bulk operations that may be in flight at one time
MaxRunning == 2

\* audio uploads that may be decoding at one time
MaxDecoding == 1

\* a payload that is not the base64 of any image
CorruptBase64 == MaxByte + 1

Bytes == 0..MaxByte
Types == {"jpg", "png", "mp3"}

\* the optional fifth argument of updateAssetInMemory: <<>> is "not given"
\* (null), <<TRUE>> / <<FALSE>> a boolean override
ExcludeArgs == {<<>>, <<TRUE>>, <<FALSE>>}

VARIABLES
    assetData,       \* key -> record, the registry
    editedAssets,    \* key -> entry, only for keys that were updated
    exportedDoc,     \* the last document written by exportChanges
    atExport,        \* registry as it was when exportedDoc was written
    lastEvent,       \* the handler that ran last and how it ended
    cards,           \* the asset cards of the grid, in document order
    hiddenCards,     \* cards the search filter set to display: none
    selectedAssets,  \* Set of selected keys, in insertion order
    isSelectMode,
    lastClickedCard, \* key of the card, or "null"
    allowedSelectionType,  \* "image", "mp3" or "null"
    excludedAssets,  \* Set of keys excluded from export, in insertion order
    isExcludeMode,
    pending,         \* callbacks of import().then(...) not yet run, oldest first
    dispatch,        \* "modeButton" while a mode button's click still has
                     \* its second listener to run, else "idle"
    running,         \* bulk operations that wait for a decode or an encode
    openModals,      \* which of the "image" and "mp3" modals are shown
    uploadedAudioBuffer,   \* <<>> (null) or <<the decoded upload>>
    uploadedImage,         \* <<>> (null) or <<the uploaded image>>
    decoding,        \* uploads whose decodeAudioData has not settled
    trimStartSlider, \* the range input: its value and its max attribute,
    trimEndSlider,   \* both in hundredths of a second
    loadingOverlay,  \* whether the loading overlay is shown
    frame,           \* arguments and locals of a function that is being
                     \* followed step by step, or NoFrame
    disabledButtons  \* the buttons of the modal whose disabled is true

regVars  == <<assetData, editedAssets>>
sessVars == <<exportedDoc, atExport>>
gridVars == <<cards, hiddenCards>>
selVars  == <<selectedAssets, isSelectMode, lastClickedCard,
              allowedSelectionType>>
trkVars  == <<excludedAssets, isExcludeMode, pending, dispatch>>
bulkVars == <<running, openModals, uploadedAudioBuffer, uploadedImage,
              decoding>>
trimVars == <<trimStartSlider, trimEndSlider>>
pageVars == <<trimVars, loadingOverlay, frame, disabledButtons>>
vars     == <<assetData, editedAssets, exportedDoc, atExport, lastEvent,
              cards, hiddenCards, selectedAssets, isSelectMode,
              lastClickedCard, allowedSelectionType, excludedAssets,
              isExcludeMode, pending, dispatch, running, openModals,
              uploadedAudioBuffer, uploadedImage, decoding,
              trimStartSlider, trimEndSlider, loadingOverlay, frame,
              disabledButtons>>

NoFrame == [fn |-> "none"]

(***************************************************************************)
(* Small helpers on maps (JS objects keyed by "folder/file").              *)
(***************************************************************************)
EmptyMap == <<>>

Has(m, k) == k \in DOMAIN m

Put(m, k, v) == [x \in DOMAIN m \cup {k} |-> IF x = k THEN v ELSE m[x]]

(***************************************************************************)
(* js/old/fileHandling.js                                                  *)
(***************************************************************************)
\* the manifest (assets/assets.json) of the registry specification
RegManifest ==
    [f1 |-> [base64 |-> 0, type |-> "jpg"],
     f3 |-> [base64 |-> 1, type |-> "mp3"]]

\* a key that no manifest lists
UnknownKey == "f9"

\* loadAllAssetsIntoMemory: the record created per manifest entry
LoadRecord(asset) ==
    [originalBase64 |-> asset.base64,
     currentBase64  |-> asset.base64,
     type           |-> asset.type,
     originalType   |-> asset.type,
     isEdited       |-> FALSE,
     isExcluded     |-> FALSE]

LoadAllAssetsIntoMemory(manifest) ==
    [k \in DOMAIN manifest |-> LoadRecord(manifest[k])]

\* mutant of IsEditedFlag: the exclusion term is forgotten
IsEditedFlagNoExclusion(rec) ==
    \/ rec.currentBase64 # rec.originalBase64
    \/ rec.type # rec.originalType

\* updateAssetInMemory, the three terms of the isEdited flag
IsEditedFlag(rec) ==
    \/ rec.currentBase64 # rec.originalBase64
    \/ rec.type # rec.originalType
    \/ rec.isExcluded = TRUE

\* updateAssetInMemory: the editedAssets entry after the call
UpdatedEntry(ad, ea, k, newBase64Data, newType, isExcludedUpdate) ==
    LET base == IF Has(ea, k)
                THEN ea[k]
                ELSE [originalFileName |-> k,
                      originalType     |-> ad[k].originalType,
                      isExcluded       |-> ad[k].isExcluded,
                      base64Data       |-> newBase64Data,
                      type             |-> newType]
    IN  [base EXCEPT !.base64Data = newBase64Data,
                     !.type = newType,
                     !.isExcluded = IF Len(isExcludedUpdate) = 1
                                    THEN isExcludedUpdate[1]
                                    ELSE @]

\* updateAssetInMemory: the assetData record after the call
UpdatedRecord(rec, newBase64Data, newType, isExcludedUpdate) ==
    LET r1 == [rec EXCEPT !.currentBase64 = newBase64Data,
                          !.type = newType,
                          !.isExcluded = IF Len(isExcludedUpdate) = 1
                                         THEN isExcludedUpdate[1]
                                         ELSE @]
    IN  [r1 EXCEPT !.isEdited = IsEditedFlag(r1)]

\* mutant of UpdateAssetInMemory: the editedAssets entry is created before
\* the key is looked up
UpdateCreatesEntry(ad, ea, k, newBase64Data, newType, isExcludedUpdate) ==
    IF Has(ad, k)
    THEN [ad |-> [ad EXCEPT ![k] = UpdatedRecord(ad[k], newBase64Data,
                                                 newType, isExcludedUpdate)],
          ea |-> Put(ea, k, UpdatedEntry(ad, ea, k, newBase64Data,
                                         newType, isExcludedUpdate))]
    ELSE [ad |-> ad,
          ea |-> Put(ea, k, [originalFileName |-> k,
                             originalType     |-> newType,
                             isExcluded       |-> FALSE,
                             base64Data       |-> newBase64Data,
                             type             |-> newType])]

\* updateAssetInMemory as a function of the registry: an unknown key is
\* logged and nothing changes
UpdateAssetInMemory(ad, ea, k, newBase64Data, newType, isExcludedUpdate) ==
    IF Has(ad, k)
    THEN [ad |-> [ad EXCEPT ![k] = UpdatedRecord(ad[k], newBase64Data,
                                                 newType, isExcludedUpdate)],
          ea |-> Put(ea, k, UpdatedEntry(ad, ea, k, newBase64Data,
                                         newType, isExcludedUpdate))]
    ELSE [ad |-> ad, ea |-> ea]

\* a direct call of updateAssetInMemory with arbitrary arguments
UpdateCall(k, b, t, ex) ==
    LET r == UpdateAssetInMemory(assetData, editedAssets, k, b, t, ex)
    IN  /\ assetData' = r.ad
        /\ editedAssets' = r.ea
        /\ lastEvent' = [op |-> "update", key |-> k,
                         outcome |-> IF Has(assetData, k) THEN "ok"
                                     ELSE "notFound"]
        /\ UNCHANGED <<sessVars, pageVars, gridVars, selVars, trkVars, bulkVars>>

\* mutant of ResetToOriginal: the two sides of the first assignment swapped
ResetOverwritesOriginal(rec) ==
    [rec EXCEPT !.originalBase64 = rec.currentBase64,
                !.type = rec.originalType,
                !.isEdited = FALSE,
                !.isExcluded = FALSE]

\* importChanges, reset pass: one record put back to its original state
ResetToOriginal(rec) ==
    [rec EXCEPT !.currentBase64 = rec.originalBase64,
                !.type = rec.originalType,
                !.isEdited = FALSE,
                !.isExcluded = FALSE]

\* importChanges: "isExcluded = false" when the entry has no such field
ImportedIsExcluded(e) ==
    IF "isExcluded" \in DOMAIN e THEN e.isExcluded ELSE FALSE

\* mutant of ApplyImported: the exclusion flag of the entry is not applied
ApplyImportedNoExclusion(rec, e) ==
    [rec EXCEPT !.currentBase64 = e.base64Data,
                !.type = e.type,
                !.isEdited = TRUE]

\* importChanges, apply pass: the record of a key found in the registry
ApplyImported(rec, e) ==
    [rec EXCEPT !.currentBase64 = e.base64Data,
                !.type = e.type,
                !.isEdited = TRUE,
                !.isExcluded = ImportedIsExcluded(e)]

\* importChanges, apply pass: the editedAssets entry written for the key
ImportedEntry(k, rec, e) ==
    [base64Data       |-> e.base64Data,
     type             |-> e.type,
     originalFileName |-> IF "originalFileName" \in DOMAIN e
                          THEN e.originalFileName ELSE k,
     originalType     |-> IF "originalType" \in DOMAIN e
                          THEN e.originalType ELSE rec.originalType,
     isExcluded       |-> ImportedIsExcluded(e)]

\* mutant of ImportedRegistry: an entry with an unknown key ends the apply
\* pass before any entry is applied
ImportedRegistryAbortsOnUnknown(ad, doc) ==
    LET reset == [k \in DOMAIN ad |-> ResetToOriginal(ad[k])]
        known == IF DOMAIN doc \subseteq DOMAIN ad THEN DOMAIN doc ELSE {}
    IN  [ad |-> [k \in DOMAIN ad |->
                    IF k \in known THEN ApplyImported(reset[k], doc[k])
                    ELSE reset[k]],
         ea |-> [k \in known |-> ImportedEntry(k, reset[k], doc[k])]]

\* importChanges (reader.onload) as a function of the registry
ImportedRegistry(ad, doc) ==
    LET reset == [k \in DOMAIN ad |-> ResetToOriginal(ad[k])]
        known == DOMAIN doc \cap DOMAIN ad
    IN  [ad |-> [k \in DOMAIN ad |->
                    IF k \in known THEN ApplyImported(reset[k], doc[k])
                    ELSE reset[k]],
         ea |-> [k \in known |-> ImportedEntry(k, reset[k], doc[k])]]

\* exportChanges: the condition under which an entry is written
IsExported(ad, ea, k) ==
    /\ Has(ad, k)
    /\ \/ ea[k].base64Data # ad[k].originalBase64
       \/ ea[k].type # ad[k].originalType
       \/ ea[k].isExcluded

\* exportChanges: the entry written for an exported key
ExportEntry(entry) ==
    [base64Data       |-> entry.base64Data,
     type             |-> entry.type,
     originalFileName |-> entry.originalFileName,
     originalType     |-> entry.originalType,
     isExcluded       |-> entry.isExcluded]

\* exportChanges: the document (editedDataForExport)
ExportedDocument(ad, ea) ==
    [k \in {x \in DOMAIN ea : IsExported(ad, ea, x)} |-> ExportEntry(ea[k])]

NoDoc == [present |-> FALSE]

\* exportChanges: nothing is written when no entry qualifies
ExportChanges ==
    LET doc == ExportedDocument(assetData, editedAssets)
    IN  /\ IF DOMAIN doc = {}
           THEN /\ lastEvent' = [op |-> "export", outcome |-> "nothing"]
                /\ UNCHANGED sessVars
           ELSE /\ exportedDoc' = [present |-> TRUE, doc |-> doc]
                /\ atExport' = assetData
                /\ lastEvent' = [op |-> "export", outcome |-> "ok"]
        /\ UNCHANGED <<regVars, gridVars, selVars, trkVars, bulkVars, pageVars>>

\* session files a user may pick besides the one just exported: not JSON,
\* empty, an edit of f1, an entry for f1 that equals the loaded asset, and an
\* exclusion of f3 next to an entry with an unknown key
SampleFiles ==
    { [valid |-> FALSE, data |-> EmptyMap],
      [valid |-> TRUE,  data |-> EmptyMap],
      [valid |-> TRUE,  data |-> [f1 |-> [base64Data |-> 1, type |-> "png"]]],
      [valid |-> TRUE,  data |-> [f1 |-> [base64Data |-> 0, type |-> "jpg"]]],
      [valid |-> TRUE,
       data  |-> [f3 |-> [base64Data |-> 1, type |-> "mp3",
                          isExcluded |-> TRUE],
                  f9 |-> [base64Data |-> 0, type |-> "jpg",
                          isExcluded |-> FALSE]]] }

ImportFiles ==
    SampleFiles \cup
    (IF exportedDoc.present
     THEN {[valid |-> TRUE, data |-> exportedDoc.doc]} ELSE {})

\* importChanges: reader.onload; a file that is not JSON changes nothing
ImportChanges(file) ==
    IF file.valid
    THEN LET r == ImportedRegistry(assetData, file.data)
         IN  /\ assetData' = r.ad
             /\ editedAssets' = r.ea
             /\ lastEvent' = [op |-> "import", outcome |-> "ok",
                              doc |-> file.data]
             /\ UNCHANGED <<sessVars, pageVars, gridVars, selVars, trkVars, bulkVars>>
    ELSE /\ lastEvent' = [op |-> "import", outcome |-> "invalid",
                          doc |-> EmptyMap]
         /\ UNCHANGED <<regVars, sessVars, pageVars, gridVars, selVars, trkVars, bulkVars>>

(***************************************************************************)
(* SpecReg: the registry of js/old/fileHandling.js under arbitrary         *)
(* updates, exports and imports.                                           *)
(***************************************************************************)
\* the selection tracker as its module initialises it
InitSelection ==
    /\ selectedAssets = <<>>
    /\ isSelectMode = FALSE
    /\ lastClickedCard = "null"
    /\ allowedSelectionType = "null"

\* the exclusion side of the tracker and the callback queue, initially
InitTracker ==
    /\ excludedAssets = <<>>
    /\ isExcludeMode = FALSE
    /\ pending = <<>>
    /\ dispatch = "idle"

\* the bulk operations module as it initialises
InitBulkOperations ==
    /\ running = <<>>
    /\ openModals = {}
    /\ uploadedAudioBuffer = <<>>
    /\ uploadedImage = <<>>
    /\ decoding = {}
    /\ trimStartSlider = [value |-> 0, max |-> 0]
    /\ trimEndSlider = [value |-> 0, max |-> 0]
    /\ loadingOverlay = FALSE
    /\ disabledButtons = {}

InitReg ==
    /\ assetData = LoadAllAssetsIntoMemory(RegManifest)
    /\ editedAssets = EmptyMap
    /\ exportedDoc = NoDoc
    /\ atExport = EmptyMap
    /\ lastEvent = [op |-> "load", outcome |-> "ok"]
    /\ cards = <<"f1", "f3">>
    /\ hiddenCards = {}
    /\ InitSelection
    /\ InitTracker
    /\ InitBulkOperations
    /\ frame = NoFrame

RegUpdate ==
    \E k \in DOMAIN assetData \cup {UnknownKey}, b \in Bytes, t \in Types,
       ex \in ExcludeArgs : UpdateCall(k, b, t, ex)

RegImport == \E file \in ImportFiles : ImportChanges(file)

NextReg == RegUpdate \/ RegImport

SpecReg == InitReg /\ [][NextReg]_vars

(***************************************************************************)
(* SpecSession: edits as the application makes them (the type stays in the *)
(* asset's family), session export and session import.                     *)
(***************************************************************************)
FamilyTypes(t) == IF t \in {"jpg", "png"} THEN {"jpg", "png"} ELSE {t}

SessEdit ==
    \E k \in DOMAIN assetData :
        \E b \in Bytes, t \in FamilyTypes(assetData[k].originalType),
           ex \in ExcludeArgs : UpdateCall(k, b, t, ex)

NextSession == SessEdit \/ ExportChanges \/ RegImport

SpecSession == InitReg /\ [][NextSession]_vars

(***************************************************************************)
(* js/fileHandling.js, the generation without the exclusion flag           *)
(***************************************************************************)
\* assets/jpglist.txt, pnglist.txt, mp3list.txt and the payload each key
\* has in the *_files_structure.json documents
FH_Lists == [jpg |-> <<"f1">>, png |-> <<"f2">>, mp3 |-> <<"f3", "f4">>]

FH_Json == [f1 |-> 0, f2 |-> CorruptBase64, f3 |-> 0, f4 |-> 1]

\* the lines of the three lists in the order the loader walks them, each
\* with the type of its list
FH_LoadOrder ==
    [i \in 1..Len(FH_Lists.jpg) |-> [key |-> FH_Lists.jpg[i], type |-> "jpg"]]
    \o [i \in 1..Len(FH_Lists.png) |-> [key |-> FH_Lists.png[i], type |-> "png"]]
    \o [i \in 1..Len(FH_Lists.mp3) |-> [key |-> FH_Lists.mp3[i], type |-> "mp3"]]

FH_LoadRecord(base64Data, type) ==
    [originalBase64 |-> base64Data,
     currentBase64  |-> base64Data,
     type           |-> type,
     isEdited       |-> FALSE]

\* the registry after walking the first n lines: a line whose payload is
\* missing is skipped, a repeated line overwrites the record
RECURSIVE FH_LoadedRegistry(_)
FH_LoadedRegistry(n) ==
    IF n = 0 THEN EmptyMap
    ELSE LET line == FH_LoadOrder[n]
             rest == FH_LoadedRegistry(n - 1)
         IN  IF Has(FH_Json, line.key)
             THEN Put(rest, line.key,
                      FH_LoadRecord(FH_Json[line.key], line.type))
             ELSE rest

\* one card is appended to the grid per line that has a payload
FH_LoadedCards ==
    LET loaded == SelectSeq(FH_LoadOrder, LAMBDA line : Has(FH_Json, line.key))
    IN  [i \in 1..Len(loaded) |-> loaded[i].key]

(***************************************************************************)
(* SpecLoad: loadAllAssetsIntoMemory followed line by line over asset      *)
(* files that may list a key more than once.                               *)
(***************************************************************************)
\* what a list file may hold, and what a *_files_structure.json may hold
LoadLists == {<<>>, <<"f1">>, <<"f1", "f1">>, <<"f1", "f2">>}

LoadJsons == {EmptyMap, [f1 |-> 0], [f1 |-> 1, f2 |-> 0]}

\* the loader after its fetches: the three lists, the three documents and
\* the loop counter
LoadFrames ==
    [fn : {"loadAllAssetsIntoMemory"},
     jpgList : LoadLists, pngList : LoadLists, mp3List : LoadLists,
     jpgJson : LoadJsons, pngJson : LoadJsons, mp3Json : LoadJsons,
     loadedCount : {0}]

\* totalAssets
TotalAssets(f) == Len(f.jpgList) + Len(f.pngList) + Len(f.mp3List)

\* the n-th line the three loops process, with the type of its list and the
\* document its payload is looked up in
LoadLine(f, n) ==
    IF n <= Len(f.jpgList)
    THEN [key |-> f.jpgList[n], type |-> "jpg", json |-> f.jpgJson]
    ELSE IF n <= Len(f.jpgList) + Len(f.pngList)
    THEN [key |-> f.pngList[n - Len(f.jpgList)], type |-> "png",
          json |-> f.pngJson]
    ELSE [key |-> f.mp3List[n - Len(f.jpgList) - Len(f.pngList)],
          type |-> "mp3", json |-> f.mp3Json]

\* one iteration of the loops: a line with a payload assigns the record of
\* its key and appends a card, a line without one is skipped with a warning
LoadNextLine ==
    LET line == LoadLine(frame, frame.loadedCount + 1)
    IN  /\ frame.fn = "loadAllAssetsIntoMemory"
        /\ frame.loadedCount < TotalAssets(frame)
        /\ IF Has(line.json, line.key)
           THEN /\ assetData' = Put(assetData, line.key,
                                    FH_LoadRecord(line.json[line.key],
                                                  line.type))
                /\ cards' = Append(cards, line.key)
           ELSE UNCHANGED <<assetData, cards>>
        /\ frame' = [frame EXCEPT !.loadedCount = @ + 1]
        /\ lastEvent' = [op |-> "loadLine", key |-> line.key,
                         type |-> line.type,
                         outcome |-> IF ~Has(line.json, line.key)
                                     THEN "missing"
                                     ELSE IF Has(assetData, line.key)
                                     THEN "replaced" ELSE "created"]
        /\ UNCHANGED <<editedAssets, sessVars, hiddenCards, selVars, trkVars,
                       bulkVars, trimVars, loadingOverlay>>
        /\ UNCHANGED disabledButtons

InitLoad ==
    /\ assetData = EmptyMap
    /\ editedAssets = EmptyMap
    /\ exportedDoc = NoDoc
    /\ atExport = EmptyMap
    /\ lastEvent = [op |-> "fetched"]
    /\ cards = <<>>
    /\ hiddenCards = {}
    /\ InitSelection
    /\ InitTracker
    /\ InitBulkOperations
    /\ frame \in LoadFrames

NextLoad == LoadNextLine

SpecLoad == InitLoad /\ [][NextLoad]_vars

(***************************************************************************)
(* The search bar: cards that do not match the term are hidden.            *)
(***************************************************************************)
\* terms typed into the search bar: a type token, which matches the cards of
\* that file type, or a term no card matches
SearchTerms == {"jpg", "png", "mp3", "zzz"}

\* file type of each asset in the asset files; a card carries it as
\* dataset.fileType
FileTypeOfKey ==
    [f1 |-> "jpg", f2 |-> "png", f3 |-> "mp3", f4 |-> "mp3", f5 |-> "png"]

CardFileType(k) == FileTypeOfKey[k]

CardMatches(k, searchTerm) == CardFileType(k) = searchTerm

HandleSearchInput(searchTerm) ==
    /\ hiddenCards' = {cards[i] : i \in 1..Len(cards)}
                        \ {k \in {cards[i] : i \in 1..Len(cards)} :
                              CardMatches(k, searchTerm)}
    /\ cards' = cards
    /\ lastEvent' = [op |-> "search", term |-> searchTerm]

HandleClearSearch ==
    /\ hiddenCards' = {}
    /\ cards' = cards
    /\ lastEvent' = [op |-> "clearSearch"]

(***************************************************************************)
(* js/selection.js: the select-only tracker                                *)
(***************************************************************************)
SeqRange(s) == {s[i] : i \in 1..Len(s)}

\* Set.add of each key in turn: a key already present keeps its place
RECURSIVE AddKeys(_, _)
AddKeys(sel, ks) ==
    IF ks = <<>> THEN sel
    ELSE AddKeys(IF Head(ks) \in SeqRange(sel) THEN sel
                 ELSE Append(sel, Head(ks)), Tail(ks))

\* Set.delete
DeleteKey(sel, k) == SelectSeq(sel, LAMBDA x : x # k)

\* Array.indexOf over the cards of the document
IndexOfCard(k) ==
    CHOOSE i \in 1..Len(cards) :
        cards[i] = k /\ \A j \in 1..(i - 1) : cards[j] # k

Min(a, b) == IF a <= b THEN a ELSE b
Max(a, b) == IF a >= b THEN a ELSE b

\* grouping of an asset type: 'image', 'mp3' or null
GroupType(type) ==
    IF type \in {"jpg", "png"} THEN "image"
    ELSE IF type = "mp3" THEN "mp3" ELSE "null"

\* mutant of Sel_RangeEligible: the range takes every displayed card
Sel_RangeAnyType(k, allowed) == k \notin hiddenCards

\* a card of a shift-click range is taken when it is displayed and its
\* group is the allowed one
Sel_RangeEligible(k, allowed) ==
    /\ k \notin hiddenCards
    /\ GroupType(assetData[k].type) = allowed

\* mutant of Sel_RangeKeys: the loop starts one card late
Sel_RangeKeysFromSecond(from, to, allowed) ==
    SelectSeq(SubSeq(cards, Min(from, to) + 1, Max(from, to)),
              LAMBDA k : Sel_RangeEligible(k, allowed))

\* the cards from the anchor to the clicked card, in document order, that
\* the range takes
Sel_RangeKeys(from, to, allowed) ==
    SelectSeq(SubSeq(cards, Min(from, to), Max(from, to)),
              LAMBDA k : Sel_RangeEligible(k, allowed))

\* mutant of Sel_AnchorAfterReject: a rejected click moves the anchor
Sel_AnchorMovedByReject(k) == k

\* the shift-click anchor after a click that the type restriction rejected
Sel_AnchorAfterReject(k) == lastClickedCard

Sel_HandleCardClick(k, shiftKey) ==
    LET groupType == GroupType(assetData[k].type)
        allowed   == IF Len(selectedAssets) = 0 THEN groupType
                     ELSE allowedSelectionType
        ranged    == AddKeys(selectedAssets,
                        Sel_RangeKeys(IndexOfCard(lastClickedCard),
                                      IndexOfCard(k), allowed))
        toggled   == IF k \in SeqRange(selectedAssets)
                     THEN DeleteKey(selectedAssets, k)
                     ELSE Append(selectedAssets, k)
        after     == IF shiftKey /\ lastClickedCard # "null"
                     THEN ranged ELSE toggled
    IN  /\ k \in SeqRange(cards) \ hiddenCards
        /\ UNCHANGED <<isSelectMode, regVars, sessVars, pageVars, gridVars, trkVars, bulkVars>>
        /\ IF ~isSelectMode
           THEN /\ UNCHANGED <<selectedAssets, lastClickedCard,
                               allowedSelectionType>>
                /\ lastEvent' = [op |-> "click", key |-> k,
                                 shift |-> shiftKey,
                                 anchor |-> lastClickedCard, outcome |-> "ignored"]
           ELSE IF groupType = "null"
           THEN /\ UNCHANGED <<selectedAssets, lastClickedCard,
                               allowedSelectionType>>
                /\ lastEvent' = [op |-> "click", key |-> k,
                                 shift |-> shiftKey,
                                 anchor |-> lastClickedCard, outcome |-> "unsupported"]
           ELSE IF Len(selectedAssets) # 0 /\ allowedSelectionType # groupType
           THEN /\ UNCHANGED <<selectedAssets, allowedSelectionType>>
                /\ lastClickedCard' = Sel_AnchorAfterReject(k)
                /\ lastEvent' = [op |-> "click", key |-> k,
                                 shift |-> shiftKey,
                                 anchor |-> lastClickedCard, outcome |-> "mismatch"]
           ELSE /\ selectedAssets' = after
                /\ lastClickedCard' = k
                /\ allowedSelectionType' =
                       IF Len(after) = 0 THEN "null" ELSE allowed
                /\ lastEvent' = [op |-> "click", key |-> k,
                                 shift |-> shiftKey,
                                 anchor |-> lastClickedCard, outcome |-> "ok"]

\* mutant of Sel_ClearAllSelections: the allowed type is not reset
Sel_ClearAllSelectionsKeepsType ==
    /\ selectedAssets' = <<>>
    /\ lastClickedCard' = "null"
    /\ UNCHANGED allowedSelectionType

Sel_ClearAllSelections ==
    /\ selectedAssets' = <<>>
    /\ lastClickedCard' = "null"
    /\ allowedSelectionType' = "null"

Sel_ToggleSelectMode ==
    /\ isSelectMode' = ~isSelectMode
    /\ IF isSelectMode'
       THEN UNCHANGED <<selectedAssets, lastClickedCard, allowedSelectionType>>
       ELSE Sel_ClearAllSelections
    /\ lastEvent' = [op |-> "toggleSelectMode",
                     cleared |-> IF isSelectMode THEN Len(selectedAssets)
                                 ELSE 0]
    /\ UNCHANGED <<regVars, sessVars, pageVars, gridVars, trkVars, bulkVars>>

Sel_SelectAllDisplayedAssets ==
    LET visible == SelectSeq(cards, LAMBDA k : k \notin hiddenCards)
        typeToSelect ==
            IF allowedSelectionType # "null" THEN allowedSelectionType
            ELSE IF Len(visible) > 0
                 THEN GroupType(assetData[visible[1]].type)
                 ELSE "null"
        keys == SelectSeq(visible,
                    LAMBDA k : GroupType(assetData[k].type) = typeToSelect)
    IN  /\ UNCHANGED <<isSelectMode, regVars, sessVars, pageVars, gridVars, trkVars, bulkVars>>
        /\ IF ~isSelectMode
           THEN /\ UNCHANGED <<selectedAssets, lastClickedCard,
                               allowedSelectionType>>
                /\ lastEvent' = [op |-> "selectAll", outcome |-> "ignored"]
           ELSE IF typeToSelect = "null"
           THEN /\ UNCHANGED <<selectedAssets, lastClickedCard,
                               allowedSelectionType>>
                /\ lastEvent' = [op |-> "selectAll", outcome |-> "nothing"]
           ELSE /\ allowedSelectionType' = typeToSelect
                /\ selectedAssets' = AddKeys(selectedAssets, keys)
                /\ lastClickedCard' = "null"
                /\ lastEvent' = [op |-> "selectAll", outcome |-> "ok"]

\* what a bulk operation reads: the selected keys that are in the registry,
\* with their current bytes and type, in selection order
Sel_GetSelectedAssets ==
    LET ks == SelectSeq(selectedAssets, LAMBDA k : Has(assetData, k))
    IN  [i \in 1..Len(ks) |->
            [key |-> ks[i], base64Data |-> assetData[ks[i]].currentBase64,
             type |-> assetData[ks[i]].type]]

(***************************************************************************)
(* SpecSel: the select-only tracker over a loaded grid, with the search    *)
(* bar hiding and showing cards.                                           *)
(***************************************************************************)
InitSel ==
    /\ assetData = FH_LoadedRegistry(Len(FH_LoadOrder))
    /\ editedAssets = EmptyMap
    /\ exportedDoc = NoDoc
    /\ atExport = EmptyMap
    /\ lastEvent = [op |-> "load", outcome |-> "ok"]
    /\ cards = FH_LoadedCards
    /\ hiddenCards = {}
    /\ InitSelection
    /\ InitTracker
    /\ InitBulkOperations
    /\ frame = NoFrame

SelClick == \E k \in SeqRange(cards), shiftKey \in BOOLEAN :
                Sel_HandleCardClick(k, shiftKey)

SelSearch ==
    /\ \E searchTerm \in SearchTerms : HandleSearchInput(searchTerm)
    /\ UNCHANGED <<regVars, sessVars, pageVars, selVars, trkVars, bulkVars>>

SelClearSearch ==
    /\ HandleClearSearch
    /\ UNCHANGED <<regVars, sessVars, pageVars, selVars, trkVars, bulkVars>>

NextSel ==
    \/ SelClick
    \/ Sel_ToggleSelectMode
    \/ Sel_SelectAllDisplayedAssets
    \/ SelSearch
    \/ SelClearSearch

SpecSel == InitSel /\ [][NextSel]_vars

(***************************************************************************)
(* js/selection.js, the generation with the exclusion set, wired up as in  *)
(* js/main.js.  Callbacks of import('./fileHandling.js').then(...) wait in *)
(* pending and run later, in order, between the handlers.                  *)
(*                                                                         *)
(* The 'selected' class of a card is added and removed together with the   *)
(* key in selectedAssets (and otherwise only removed), so the tests        *)
(* "selectedAssets.has(key) || card has class selected" are tests of the   *)
(* set.                                                                    *)
(***************************************************************************)
\* assets/assets.json in the order its keys are walked
TrkManifest ==
    <<[key |-> "f1", base64 |-> 0, type |-> "jpg"],
      [key |-> "f3", base64 |-> 0, type |-> "mp3"],
      [key |-> "f2", base64 |-> 1, type |-> "png"]>>

\* the registry loaded from a manifest given as the sequence of its entries
ManifestRegistry(manifest) ==
    [k \in {manifest[i].key : i \in 1..Len(manifest)} |->
        LoadRecord(CHOOSE a \in SeqRange(manifest) : a.key = k)]

\* renderAssetCards: one card per record, in the order of the registry
RenderAssetCards(manifest) == [i \in 1..Len(manifest) |-> manifest[i].key]

\* editedAssets[folder][file] exists and its isExcluded is truthy
EditedExcluded(ea, k) == Has(ea, k) /\ ea[k].isExcluded = TRUE

\* the deferred callbacks
CbUpdate(k, b, t, ex) ==
    [cb |-> "update", key |-> k, base64 |-> b, type |-> t, ex |-> ex]

CbClearAllExclusions == [cb |-> "clearAllExclusions"]

CbSelectAll(visibleCards, typeToProcess) ==
    [cb |-> "selectAll", visibleCards |-> visibleCards,
     typeToProcess |-> typeToProcess]

\* mutant of UpdateEach: the original bytes and type are passed on
RECURSIVE UpdateEachOriginal(_, _, _)
UpdateEachOriginal(reg, ks, ex) ==
    IF ks = <<>> THEN reg
    ELSE LET k == Head(ks)
         IN  UpdateEachOriginal(
                 IF Has(reg.ad, k)
                 THEN UpdateAssetInMemory(reg.ad, reg.ea, k,
                          reg.ad[k].originalBase64, reg.ad[k].originalType,
                          <<ex>>)
                 ELSE reg,
                 Tail(ks), ex)

\* updateAssetInMemory(k, currentBase64, type, ex) for each key in turn
RECURSIVE UpdateEach(_, _, _)
UpdateEach(reg, ks, ex) ==
    IF ks = <<>> THEN reg
    ELSE LET k == Head(ks)
         IN  UpdateEach(
                 IF Has(reg.ad, k)
                 THEN UpdateAssetInMemory(reg.ad, reg.ea, k,
                          reg.ad[k].currentBase64, reg.ad[k].type, <<ex>>)
                 ELSE reg,
                 Tail(ks), ex)

\* the cards between the anchor and the clicked card that are displayed and
\* of the clicked card's group
Trk_RangeCards(from, to, groupType) ==
    SelectSeq(SubSeq(cards, Min(from, to), Max(from, to)),
              LAMBDA c : /\ c \notin hiddenCards
                         /\ GroupType(assetData[c].originalType) = groupType)

\* mutant of Trk_RangeSelectable: the range does not look at the exclusions
Trk_RangeSelectsExcluded(c) == TRUE

\* a card of a shift-click range is selected unless it is excluded
Trk_RangeSelectable(c) ==
    ~(c \in SeqRange(excludedAssets) \/ EditedExcluded(editedAssets, c))

\* mutant of HandleToggleSelection: the regular click does not test the
\* exclusion set before it adds the key
HandleToggleSelectionAddsExcluded(k, isShiftClick, groupType) ==
    IF isShiftClick /\ lastClickedCard # "null"
    THEN [sel |-> AddKeys(selectedAssets,
                     SelectSeq(Trk_RangeCards(IndexOfCard(lastClickedCard),
                                              IndexOfCard(k), groupType),
                               LAMBDA c : Trk_RangeSelectable(c))),
          end |-> "ok"]
    ELSE IF k \in SeqRange(selectedAssets)
    THEN [sel |-> DeleteKey(selectedAssets, k), end |-> "ok"]
    ELSE IF k \in SeqRange(excludedAssets)
    THEN [sel |-> Append(selectedAssets, k), end |-> "ok"]
    ELSE [sel |-> selectedAssets, end |-> "threw"]

\* handleToggleSelection: the selection after the call and how the call
\* ended -- "ok" (ran to its end), "conflict" (alert and return) or "threw"
\* (the regular click of an unselected card reads folderNumber, which is
\* not defined in this function, and throws before the key is added)
HandleToggleSelection(k, isShiftClick, groupType) ==
    IF isShiftClick /\ lastClickedCard # "null"
    THEN [sel |-> AddKeys(selectedAssets,
                     SelectSeq(Trk_RangeCards(IndexOfCard(lastClickedCard),
                                              IndexOfCard(k), groupType),
                               LAMBDA c : Trk_RangeSelectable(c))),
          end |-> "ok"]
    ELSE IF k \in SeqRange(selectedAssets)
    THEN [sel |-> DeleteKey(selectedAssets, k), end |-> "ok"]
    ELSE IF k \in SeqRange(excludedAssets)
    THEN [sel |-> selectedAssets, end |-> "conflict"]
    ELSE [sel |-> selectedAssets, end |-> "threw"]

\* the cards a shift-click range newly excludes
Trk_RangeNewlyExcluded(k, groupType) ==
    SelectSeq(Trk_RangeCards(IndexOfCard(lastClickedCard), IndexOfCard(k),
                             groupType),
              LAMBDA c : /\ c \notin SeqRange(selectedAssets)
                         /\ c \notin SeqRange(excludedAssets))

\* handleToggleExclusion: the exclusion set, the registry and the deferred
\* calls after the call, and how it ended.  The regular click changes the
\* set and then throws where it reads folderNumber, before it touches the
\* registry; the range sets isExcluded in assetData itself and defers the
\* call of updateAssetInMemory.
HandleToggleExclusion(k, isShiftClick, groupType) ==
    IF isShiftClick /\ lastClickedCard # "null"
    THEN LET new == Trk_RangeNewlyExcluded(k, groupType)
         IN  [exc |-> AddKeys(excludedAssets, new),
              ad  |-> [c \in DOMAIN assetData |->
                          IF c \in SeqRange(new)
                          THEN [assetData[c] EXCEPT !.isExcluded = TRUE]
                          ELSE assetData[c]],
              cbs |-> [i \in 1..Len(new) |->
                          CbUpdate(new[i], assetData[new[i]].currentBase64,
                                   assetData[new[i]].type, TRUE)],
              end |-> "ok"]
    ELSE IF k \in SeqRange(excludedAssets)
    THEN [exc |-> DeleteKey(excludedAssets, k), ad |-> assetData,
          cbs |-> <<>>, end |-> "threw"]
    ELSE IF k \in SeqRange(selectedAssets)
    THEN [exc |-> excludedAssets, ad |-> assetData, cbs |-> <<>>,
          end |-> "conflict"]
    ELSE [exc |-> Append(excludedAssets, k), ad |-> assetData,
          cbs |-> <<>>, end |-> "threw"]

Trk_HandleCardClick(k, shiftKey) ==
    LET groupType == GroupType(assetData[k].originalType)
        bothEmpty == selectedAssets = <<>> /\ excludedAssets = <<>>
        allowed   == IF bothEmpty THEN groupType ELSE allowedSelectionType
        s == HandleToggleSelection(k, shiftKey, groupType)
        x == HandleToggleExclusion(k, shiftKey, groupType)
        sel == IF isSelectMode THEN s.sel ELSE selectedAssets
        exc == IF isSelectMode THEN excludedAssets ELSE x.exc
        end == IF isSelectMode THEN s.end ELSE x.end
        cbs == IF isSelectMode THEN <<>> ELSE x.cbs
    IN  /\ dispatch = "idle"
        /\ k \in SeqRange(cards) \ hiddenCards
        /\ UNCHANGED <<isSelectMode, isExcludeMode, dispatch, editedAssets,
                       sessVars, pageVars, gridVars, bulkVars>>
        /\ IF ~isSelectMode /\ ~isExcludeMode
           THEN /\ UNCHANGED <<selectedAssets, excludedAssets, assetData,
                               lastClickedCard, allowedSelectionType, pending>>
                /\ lastEvent' = [op |-> "click", outcome |-> "ignored"]
           ELSE IF groupType = "null"
           THEN /\ UNCHANGED <<selectedAssets, excludedAssets, assetData,
                               lastClickedCard, allowedSelectionType, pending>>
                /\ lastEvent' = [op |-> "click", outcome |-> "unsupported"]
           ELSE IF ~bothEmpty /\ allowedSelectionType # groupType
           THEN /\ UNCHANGED <<selectedAssets, excludedAssets, assetData,
                               lastClickedCard, allowedSelectionType, pending>>
                /\ lastEvent' = [op |-> "click", outcome |-> "mismatch"]
           ELSE /\ Len(pending) + Len(cbs) <= MaxPending
                /\ selectedAssets' = sel
                /\ excludedAssets' = exc
                /\ assetData' = IF isSelectMode THEN assetData ELSE x.ad
                /\ pending' = pending \o cbs
                /\ lastClickedCard' =
                       IF end = "threw" THEN lastClickedCard ELSE k
                /\ allowedSelectionType' =
                       IF end # "threw" /\ sel = <<>> /\ exc = <<>>
                       THEN "null" ELSE allowed
                /\ lastEvent' = [op |-> "click", outcome |-> end]

\* toggleSelectMode, the first listener of the select button
Trk_ToggleSelectMode ==
    /\ dispatch = "idle"
    /\ Len(pending) + (IF isExcludeMode THEN 1 ELSE 0) <= MaxPending
    /\ isSelectMode' = ~isSelectMode
    /\ isExcludeMode' = FALSE
    /\ pending' = IF isExcludeMode
                  THEN Append(pending, CbClearAllExclusions) ELSE pending
    /\ IF isSelectMode'
       THEN UNCHANGED <<selectedAssets, lastClickedCard, allowedSelectionType>>
       ELSE /\ selectedAssets' = <<>>
            /\ lastClickedCard' = "null"
            /\ allowedSelectionType' =
                   IF excludedAssets = <<>> THEN "null"
                   ELSE allowedSelectionType
    /\ dispatch' = "modeButton"
    /\ lastEvent' = [op |-> "toggleSelectMode",
                     wasExcludeMode |-> isExcludeMode]
    /\ UNCHANGED <<excludedAssets, regVars, sessVars, pageVars, gridVars, bulkVars>>

\* mutant of Trk_ToggleExcludeMode: select mode is left as it was
Trk_ToggleExcludeModeKeepsSelect ==
    /\ dispatch = "idle"
    /\ Len(pending) + (IF isExcludeMode THEN 1 ELSE 0) <= MaxPending
    /\ isExcludeMode' = ~isExcludeMode
    /\ isSelectMode' = isSelectMode
    /\ IF isSelectMode
       THEN /\ selectedAssets' = <<>>
            /\ lastClickedCard' = "null"
            /\ allowedSelectionType' =
                   IF excludedAssets = <<>> THEN "null"
                   ELSE allowedSelectionType
       ELSE UNCHANGED <<selectedAssets, lastClickedCard, allowedSelectionType>>
    /\ pending' = IF isExcludeMode'
                  THEN pending ELSE Append(pending, CbClearAllExclusions)
    /\ dispatch' = "modeButton"
    /\ lastEvent' = [op |-> "toggleExcludeMode",
                     wasSelectMode |-> isSelectMode]
    /\ UNCHANGED <<excludedAssets, regVars, sessVars, pageVars, gridVars, bulkVars>>

\* toggleExcludeMode, the first listener of the exclude button
Trk_ToggleExcludeMode ==
    /\ dispatch = "idle"
    /\ Len(pending) + (IF isExcludeMode THEN 1 ELSE 0) <= MaxPending
    /\ isExcludeMode' = ~isExcludeMode
    /\ isSelectMode' = FALSE
    /\ IF isSelectMode
       THEN /\ selectedAssets' = <<>>
            /\ lastClickedCard' = "null"
            /\ allowedSelectionType' =
                   IF excludedAssets = <<>> THEN "null"
                   ELSE allowedSelectionType
       ELSE UNCHANGED <<selectedAssets, lastClickedCard, allowedSelectionType>>
    /\ pending' = IF isExcludeMode'
                  THEN pending ELSE Append(pending, CbClearAllExclusions)
    /\ dispatch' = "modeButton"
    /\ lastEvent' = [op |-> "toggleExcludeMode",
                     wasSelectMode |-> isSelectMode]
    /\ UNCHANGED <<excludedAssets, regVars, sessVars, pageVars, gridVars, bulkVars>>

\* the listener js/main.js adds to both mode buttons; it runs after the
\* toggle of the same click
Trk_ModeButtonListener ==
    /\ dispatch = "modeButton"
    /\ Len(pending) + (IF isExcludeMode THEN 0 ELSE 1) <= MaxPending
    /\ IF ~isSelectMode
       THEN /\ selectedAssets' = <<>>
            /\ lastClickedCard' = "null"
            /\ allowedSelectionType' =
                   IF excludedAssets = <<>> THEN "null"
                   ELSE allowedSelectionType
       ELSE UNCHANGED <<selectedAssets, lastClickedCard, allowedSelectionType>>
    /\ pending' = IF ~isExcludeMode
                  THEN Append(pending, CbClearAllExclusions) ELSE pending
    /\ dispatch' = "idle"
    /\ lastEvent' = [op |-> "modeButtonListener"]
    /\ UNCHANGED <<excludedAssets, isSelectMode, isExcludeMode, regVars,
                   sessVars, pageVars, gridVars, bulkVars>>

\* selectAllDisplayedAssets up to its import(): the type is settled now,
\* the cards are processed in the deferred callback
Trk_SelectAllDisplayedAssets ==
    LET visibleCards == SelectSeq(cards, LAMBDA c : c \notin hiddenCards)
        typeToProcess ==
            IF allowedSelectionType # "null" THEN allowedSelectionType
            ELSE IF Len(visibleCards) > 0
                 THEN GroupType(assetData[visibleCards[1]].originalType)
                 ELSE "null"
    IN  /\ dispatch = "idle"
        /\ UNCHANGED <<selectedAssets, excludedAssets, isSelectMode,
                       isExcludeMode, lastClickedCard, dispatch, regVars,
                       sessVars, pageVars, gridVars, bulkVars>>
        /\ IF ~isSelectMode /\ ~isExcludeMode
           THEN /\ UNCHANGED <<allowedSelectionType, pending>>
                /\ lastEvent' = [op |-> "selectAll", outcome |-> "ignored"]
           ELSE IF typeToProcess = "null"
           THEN /\ UNCHANGED <<allowedSelectionType, pending>>
                /\ lastEvent' = [op |-> "selectAll", outcome |-> "nothing"]
           ELSE /\ Len(pending) < MaxPending
                /\ allowedSelectionType' = typeToProcess
                /\ pending' = Append(pending,
                                  CbSelectAll(visibleCards, typeToProcess))
                /\ lastEvent' = [op |-> "selectAll", outcome |-> "deferred"]

\* mutant of Trk_SelectAllSelectable: select-all does not look at the
\* exclusions
Trk_SelectAllTakesExcluded(c) == c \notin SeqRange(selectedAssets)

\* a card select-all adds to the selection
Trk_SelectAllSelectable(c) ==
    /\ c \notin SeqRange(selectedAssets)
    /\ c \notin SeqRange(excludedAssets)
    /\ ~EditedExcluded(editedAssets, c)

\* the callback of updateAssetInMemory deferred by a range exclusion
RunCbUpdate(c) ==
    LET r == UpdateAssetInMemory(assetData, editedAssets, c.key, c.base64,
                                 c.type, <<c.ex>>)
    IN  /\ assetData' = r.ad
        /\ editedAssets' = r.ea
        /\ UNCHANGED <<selectedAssets, excludedAssets, lastClickedCard,
                       allowedSelectionType>>

\* the callback of clearAllExclusions
RunCbClearAllExclusions ==
    LET r == UpdateEach([ad |-> assetData, ea |-> editedAssets],
                        excludedAssets, FALSE)
    IN  /\ assetData' = r.ad
        /\ editedAssets' = r.ea
        /\ excludedAssets' = <<>>
        /\ lastClickedCard' = "null"
        /\ allowedSelectionType' =
               IF selectedAssets = <<>> THEN "null" ELSE allowedSelectionType
        /\ UNCHANGED selectedAssets

\* the callback of selectAllDisplayedAssets: it reads the modes when it runs
RunCbSelectAll(c) ==
    LET ofType == SelectSeq(c.visibleCards,
                     LAMBDA k : GroupType(assetData[k].originalType)
                                    = c.typeToProcess)
        toSelect  == SelectSeq(ofType, LAMBDA k : Trk_SelectAllSelectable(k))
        toExclude == SelectSeq(ofType,
                         LAMBDA k : /\ k \notin SeqRange(excludedAssets)
                                    /\ k \notin SeqRange(selectedAssets))
        r == UpdateEach([ad |-> assetData, ea |-> editedAssets],
                        toExclude, TRUE)
    IN  /\ lastClickedCard' = "null"
        /\ UNCHANGED allowedSelectionType
        /\ IF isSelectMode
           THEN /\ selectedAssets' = AddKeys(selectedAssets, toSelect)
                /\ UNCHANGED <<excludedAssets, regVars>>
           ELSE IF isExcludeMode
           THEN /\ excludedAssets' = AddKeys(excludedAssets, toExclude)
                /\ assetData' = r.ad
                /\ editedAssets' = r.ea
                /\ UNCHANGED selectedAssets
           ELSE UNCHANGED <<selectedAssets, excludedAssets, regVars>>

\* the oldest deferred callback runs
RunCallback ==
    /\ pending # <<>>
    /\ LET c == Head(pending)
       IN  /\ CASE c.cb = "update" -> RunCbUpdate(c)
                [] c.cb = "clearAllExclusions" -> RunCbClearAllExclusions
                [] c.cb = "selectAll" -> RunCbSelectAll(c)
           /\ lastEvent' = [op |-> "callback", cb |-> c.cb]
    /\ pending' = Tail(pending)
    /\ UNCHANGED <<isSelectMode, isExcludeMode, dispatch, sessVars, pageVars, gridVars,
                   bulkVars>>

\* mutant of Trk_GetSelectedAssets: the displayed cards are read, not the
\* selected keys
Trk_GetDisplayedAssets ==
    LET ks == SelectSeq(cards,
                  LAMBDA k : /\ k \notin hiddenCards
                             /\ Has(assetData, k) /\ ~assetData[k].isExcluded)
    IN  [i \in 1..Len(ks) |->
            [key |-> ks[i], base64Data |-> assetData[ks[i]].currentBase64,
             type |-> assetData[ks[i]].type]]

\* what a bulk operation reads: the selected keys that are in the registry
\* and not flagged excluded, in selection order
Trk_GetSelectedAssets ==
    LET ks == SelectSeq(selectedAssets,
                  LAMBDA k : Has(assetData, k) /\ ~assetData[k].isExcluded)
    IN  [i \in 1..Len(ks) |->
            [key |-> ks[i], base64Data |-> assetData[ks[i]].currentBase64,
             type |-> assetData[ks[i]].type]]

(***************************************************************************)
(* SpecTrack: the select/exclude tracker over the registry with the        *)
(* exclusion flag.                                                         *)
(***************************************************************************)
\* the term typed into the search bar while the tracker is exercised
TrkSearchTerms == {"png"}

InitTrack ==
    /\ assetData = ManifestRegistry(TrkManifest)
    /\ editedAssets = EmptyMap
    /\ exportedDoc = NoDoc
    /\ atExport = EmptyMap
    /\ lastEvent = [op |-> "load", outcome |-> "ok"]
    /\ cards = RenderAssetCards(TrkManifest)
    /\ hiddenCards = {}
    /\ InitSelection
    /\ InitTracker
    /\ InitBulkOperations
    /\ frame = NoFrame

TrkClick == \E k \in SeqRange(cards), shiftKey \in BOOLEAN :
                Trk_HandleCardClick(k, shiftKey)

TrkSearch ==
    /\ dispatch = "idle"
    /\ \E searchTerm \in TrkSearchTerms : HandleSearchInput(searchTerm)
    /\ UNCHANGED <<regVars, sessVars, pageVars, selVars, trkVars, bulkVars>>

TrkClearSearch ==
    /\ dispatch = "idle"
    /\ HandleClearSearch
    /\ UNCHANGED <<regVars, sessVars, pageVars, selVars, trkVars, bulkVars>>

NextTrack ==
    \/ TrkClick
    \/ Trk_ToggleSelectMode
    \/ Trk_ToggleExcludeMode
    \/ Trk_ModeButtonListener
    \/ Trk_SelectAllDisplayedAssets
    \/ RunCallback
    \/ TrkSearch
    \/ TrkClearSearch

SpecTrack == InitTrack /\ [][NextTrack]_vars

(***************************************************************************)
(* js/bulkOperations.js: the bulk colour change and the bulk audio         *)
(* replacement over the selection of the select/exclude tracker.  An       *)
(* operation that waits (for an image to decode, for the MP3 encoder) is   *)
(* an entry of running; its continuation is a later step.                  *)
(***************************************************************************)
\* assets/assets.json with an image payload no decoder accepts
BulkManifest ==
    <<[key |-> "f1", base64 |-> 0, type |-> "jpg"],
      [key |-> "f2", base64 |-> CorruptBase64, type |-> "png"],
      [key |-> "f3", base64 |-> 0, type |-> "mp3"],
      [key |-> "f5", base64 |-> 1, type |-> "png"]>>

\* whether the browser decodes the payload as an image (img.onload) or
\* not (img.onerror)
Decodable(base64Data) == base64Data \in Bytes

\* canvas.toDataURL of the blended pixels: the re-encoded payload
Recolour(base64Data) == (base64Data + 1) % (MaxByte + 1)

\* the MP3 the encoder makes of a decoded buffer
Mp3Encode(buffer) == (buffer + 1) % (MaxByte + 1)

\* samples per second of the uploads of the model: three samples to a
\* hundredth of a second
SampleRate == 300

\* files offered to the audio upload: their MIME type, whether
\* decodeAudioData accepts them, whether the encoder takes their channel
\* layout, and the sample rate and sample count of the decoded buffer
AudioFiles ==
    {[type |-> "audio/mpeg", data |-> 0, decodes |-> TRUE, encodes |-> TRUE,
      sampleRate |-> SampleRate, length |-> 4],
     [type |-> "audio/wav", data |-> 1, decodes |-> TRUE, encodes |-> FALSE,
      sampleRate |-> SampleRate, length |-> 6],
     [type |-> "audio/wav", data |-> 1, decodes |-> FALSE, encodes |-> FALSE,
      sampleRate |-> SampleRate, length |-> 0],
     [type |-> "text/plain", data |-> 0, decodes |-> FALSE, encodes |-> FALSE,
      sampleRate |-> SampleRate, length |-> 0]}

\* audioDuration.toFixed(2), in hundredths of a second: the hundredth
\* nearest to length / sampleRate
DurationToFixed2(buffer) ==
    (200 * buffer.length + buffer.sampleRate) \div (2 * buffer.sampleRate)

\* assignment to the value of a range input: the browser keeps the value
\* between the minimum 0 and the max attribute
SetSliderValue(slider, v) ==
    [slider EXCEPT !.value = IF v < 0 THEN 0
                             ELSE IF v > slider.max THEN slider.max ELSE v]

\* assignment to the max attribute: the value is brought back under it
SetSliderMax(slider, m) ==
    [value |-> IF slider.value > m THEN m ELSE slider.value, max |-> m]

IsImageType(type) == type \in {"jpg", "png"}

\* index of the first image asset of the batch at or after position i, or
\* Len + 1 when the loop runs off the end
RECURSIVE NextImageIndex(_, _)
NextImageIndex(selected, i) ==
    IF i > Len(selected) THEN i
    ELSE IF IsImageType(selected[i].type) THEN i
    ELSE NextImageIndex(selected, i + 1)

RemoveAt(s, i) == SubSeq(s, 1, i - 1) \o SubSeq(s, i + 1, Len(s))

\* mutant of CloseBulkOperationsModal: clearAllSelections is not called
CloseBulkOperationsModalKeepsSelection(type) ==
    /\ openModals' = openModals \ {type}
    /\ UNCHANGED uploadedImage
    /\ uploadedAudioBuffer' =
           IF type = "mp3" THEN <<>> ELSE uploadedAudioBuffer
    /\ trimStartSlider' = IF type = "mp3"
                          THEN SetSliderValue(trimStartSlider, 0)
                          ELSE trimStartSlider
    /\ trimEndSlider' = IF type = "mp3"
                        THEN SetSliderValue(trimEndSlider, 0)
                        ELSE trimEndSlider
    /\ UNCHANGED <<selectedAssets, lastClickedCard, allowedSelectionType>>
    /\ UNCHANGED disabledButtons

\* closeBulkOperationsModal: the modal is hidden, the upload state and the
\* trim sliders of the audio modal are reset, the selection is cleared
CloseBulkOperationsModal(type) ==
    /\ openModals' = openModals \ {type}
    /\ UNCHANGED uploadedImage
    /\ uploadedAudioBuffer' =
           IF type = "mp3" THEN <<>> ELSE uploadedAudioBuffer
    /\ trimStartSlider' = IF type = "mp3"
                          THEN SetSliderValue(trimStartSlider, 0)
                          ELSE trimStartSlider
    /\ trimEndSlider' = IF type = "mp3"
                        THEN SetSliderValue(trimEndSlider, 0)
                        ELSE trimEndSlider
    /\ selectedAssets' = <<>>
    /\ lastClickedCard' = "null"
    /\ allowedSelectionType' =
           IF excludedAssets = <<>> THEN "null" ELSE allowedSelectionType
    /\ UNCHANGED disabledButtons

OpenBulkOperationsModal ==
    LET selected == Trk_GetSelectedAssets
        hasImage == \E i \in 1..Len(selected) : IsImageType(selected[i].type)
        hasMp3   == \E i \in 1..Len(selected) : selected[i].type = "mp3"
    IN  /\ dispatch = "idle"
        /\ openModals' =
               IF Len(selected) = 0 \/ (hasImage /\ hasMp3) THEN openModals
               ELSE IF hasImage THEN openModals \cup {"image"}
               ELSE IF hasMp3 THEN openModals \cup {"mp3"}
               ELSE openModals
        /\ lastEvent' = [op |-> "openBulkOperationsModal"]
        /\ UNCHANGED <<regVars, sessVars, pageVars, gridVars, selVars, trkVars,
                       running, uploadedAudioBuffer, uploadedImage, decoding>>

HandleNewAudioUpload(file) ==
    /\ dispatch = "idle"
    /\ "mp3" \in openModals
    /\ Cardinality(decoding) < MaxDecoding
    /\ UNCHANGED uploadedImage
    /\ uploadedAudioBuffer' = <<>>
    /\ decoding' = IF file.type \in {"audio/wav", "audio/mpeg"}
                   THEN decoding \cup {file} ELSE decoding
    /\ loadingOverlay' = IF file.type \in {"audio/wav", "audio/mpeg"}
                         THEN TRUE ELSE loadingOverlay
    /\ lastEvent' = [op |-> "handleNewAudioUpload"]
    /\ UNCHANGED <<regVars, sessVars, trimVars, frame, gridVars, selVars,
                   trkVars, running, openModals>>
    /\ UNCHANGED disabledButtons

\* reader.onload of an upload: decodeAudioData succeeded, and the sliders
\* are set to span the upload, or it threw
AudioDecoded(file) ==
    /\ file \in decoding
    /\ decoding' = decoding \ {file}
    /\ UNCHANGED uploadedImage
    /\ uploadedAudioBuffer' = IF file.decodes THEN <<file>> ELSE <<>>
    /\ trimStartSlider' =
           IF file.decodes
           THEN SetSliderValue(
                    SetSliderMax(trimStartSlider, DurationToFixed2(file)), 0)
           ELSE trimStartSlider
    /\ trimEndSlider' =
           IF file.decodes
           THEN SetSliderValue(
                    SetSliderMax(trimEndSlider, DurationToFixed2(file)),
                    DurationToFixed2(file))
           ELSE trimEndSlider
    /\ loadingOverlay' = FALSE
    /\ lastEvent' = [op |-> "audioDecoded"]
    /\ UNCHANGED <<regVars, sessVars, frame, gridVars, selVars, trkVars,
                   running, openModals>>
    /\ UNCHANGED disabledButtons

\* applyUploadedAudio up to its await of the encoder
ApplyUploadedAudio(trimmedBufferLength) ==
    LET selected == Trk_GetSelectedAssets
    IN  /\ dispatch = "idle"
        /\ "mp3" \in openModals
        /\ UNCHANGED <<regVars, sessVars, trimVars, frame, gridVars, selVars,
                       trkVars, openModals, uploadedAudioBuffer,
                       uploadedImage, decoding>>
        /\ IF Len(selected) = 0
           THEN /\ UNCHANGED <<running, loadingOverlay>>
                /\ lastEvent' = [op |-> "applyUploadedAudio",
                                 outcome |-> "noSelection"]
           ELSE IF uploadedAudioBuffer = <<>>
           THEN /\ UNCHANGED <<running, loadingOverlay>>
                /\ lastEvent' = [op |-> "applyUploadedAudio",
                                 outcome |-> "noAudio"]
           ELSE IF trimmedBufferLength <= 0
           THEN /\ UNCHANGED running
                /\ loadingOverlay' = FALSE
                /\ lastEvent' = [op |-> "applyUploadedAudio",
                                 outcome |-> "error",
                                 length |-> trimmedBufferLength]
           ELSE /\ Len(running) < MaxRunning
                /\ loadingOverlay' = TRUE
                /\ running' = Append(running,
                       [kind |-> "audio", selected |-> selected,
                        buffer |-> uploadedAudioBuffer[1]])
                /\ lastEvent' = [op |-> "applyUploadedAudio",
                                 outcome |-> "started",
                                 length |-> trimmedBufferLength]
        /\ UNCHANGED disabledButtons

\* updateAssetInMemory(key, finalMp3Base64, 'mp3') for each mp3 asset of the
\* batch
RECURSIVE ApplyAudioEach(_, _, _)
ApplyAudioEach(reg, selected, finalMp3Base64) ==
    IF selected = <<>> THEN reg
    ELSE LET asset == Head(selected)
         IN  ApplyAudioEach(
                 IF asset.type = "mp3"
                 THEN UpdateAssetInMemory(reg.ad, reg.ea, asset.key,
                                          finalMp3Base64, "mp3", <<>>)
                 ELSE reg,
                 Tail(selected), finalMp3Base64)

\* mutant of AudioConverted: the catch does not hide the loading overlay
AudioConvertedKeepsOverlay(n) ==
    LET o == running[n]
        r == ApplyAudioEach([ad |-> assetData, ea |-> editedAssets],
                            o.selected, Mp3Encode(o.buffer.data))
    IN  /\ o.kind = "audio"
        /\ running' = RemoveAt(running, n)
        /\ UNCHANGED <<sessVars, frame, gridVars, isSelectMode, trkVars,
                       decoding>>
        /\ loadingOverlay' = IF o.buffer.encodes THEN FALSE ELSE loadingOverlay
        /\ IF o.buffer.encodes
           THEN /\ assetData' = r.ad
                /\ editedAssets' = r.ea
                /\ CloseBulkOperationsModal("mp3")
                /\ lastEvent' = [op |-> "audioEnd", outcome |-> "completed"]
           ELSE /\ UNCHANGED <<regVars, selectedAssets, lastClickedCard,
                               allowedSelectionType, openModals,
                               uploadedAudioBuffer, uploadedImage, trimVars>>
                /\ lastEvent' = [op |-> "audioEnd", outcome |-> "error"]
        /\ UNCHANGED disabledButtons

\* the encoder settled: the batch is applied and the modal closed, or the
\* error is reported
AudioConverted(n) ==
    LET o == running[n]
        r == ApplyAudioEach([ad |-> assetData, ea |-> editedAssets],
                            o.selected, Mp3Encode(o.buffer.data))
    IN  /\ o.kind = "audio"
        /\ running' = RemoveAt(running, n)
        /\ UNCHANGED <<sessVars, frame, gridVars, isSelectMode, trkVars,
                       decoding>>
        /\ loadingOverlay' = FALSE
        /\ IF o.buffer.encodes
           THEN /\ assetData' = r.ad
                /\ editedAssets' = r.ea
                /\ CloseBulkOperationsModal("mp3")
                /\ lastEvent' = [op |-> "audioEnd", outcome |-> "completed"]
           ELSE /\ UNCHANGED <<regVars, selectedAssets, lastClickedCard,
                               allowedSelectionType, openModals,
                               uploadedAudioBuffer, uploadedImage, trimVars>>
                /\ lastEvent' = [op |-> "audioEnd", outcome |-> "error"]
        /\ UNCHANGED disabledButtons

\* applyColorChange up to its first await
ApplyColorChange ==
    LET selected == Trk_GetSelectedAssets
        first    == NextImageIndex(selected, 1)
    IN  /\ dispatch = "idle"
        /\ "image" \in openModals
        /\ UNCHANGED <<regVars, sessVars, pageVars, gridVars, isSelectMode, trkVars,
                       uploadedAudioBuffer, uploadedImage, decoding>>
        /\ IF Len(selected) = 0
           THEN /\ UNCHANGED <<running, selectedAssets, lastClickedCard,
                               allowedSelectionType, openModals>>
                /\ lastEvent' = [op |-> "applyColorChange",
                                 outcome |-> "noSelection"]
           ELSE IF first > Len(selected)
           THEN /\ UNCHANGED running
                /\ CloseBulkOperationsModal("image")
                /\ lastEvent' = [op |-> "colorEnd", outcome |-> "completed",
                                 selected |-> selected, updated |-> {}]
           ELSE /\ Len(running) < MaxRunning
                /\ running' = Append(running,
                       [kind |-> "color", selected |-> selected,
                        selection |-> selectedAssets,
                        i |-> first, updated |-> {}])
                /\ UNCHANGED <<selectedAssets, lastClickedCard,
                               allowedSelectionType, openModals>>
                /\ lastEvent' = [op |-> "applyColorChange",
                                 outcome |-> "started"]

\* the image the batch waits for loaded (its pixels are blended, re-encoded
\* and stored, and the loop goes on) or failed to load (img.onerror rejects
\* the awaited promise and the catch around the loop ends the batch)
ColorDecoded(n) ==
    LET o     == running[n]
        asset == o.selected[o.i]
        ok    == Decodable(asset.base64Data)
        r     == IF ok
                 THEN UpdateAssetInMemory(assetData, editedAssets, asset.key,
                          Recolour(asset.base64Data), asset.type, <<>>)
                 ELSE [ad |-> assetData, ea |-> editedAssets]
        upd   == IF ok THEN o.updated \cup {asset.key} ELSE o.updated
        next  == NextImageIndex(o.selected, o.i + 1)
    IN  /\ o.kind = "color"
        /\ assetData' = r.ad
        /\ editedAssets' = r.ea
        /\ UNCHANGED <<sessVars, pageVars, gridVars, isSelectMode, trkVars,
                       uploadedAudioBuffer, uploadedImage, decoding>>
        /\ IF ~ok
           THEN /\ running' = RemoveAt(running, n)
                /\ UNCHANGED <<selectedAssets, lastClickedCard,
                               allowedSelectionType, openModals>>
                /\ lastEvent' = [op |-> "colorEnd", outcome |-> "error",
                                 selected |-> o.selected, updated |-> upd]
           ELSE IF next > Len(o.selected)
           THEN /\ running' = RemoveAt(running, n)
                /\ CloseBulkOperationsModal("image")
                /\ lastEvent' = [op |-> "colorEnd", outcome |-> "completed",
                                 selected |-> o.selected, updated |-> upd]
           ELSE /\ running' = [running EXCEPT ![n] =
                                  [o EXCEPT !.i = next, !.updated = upd]]
                /\ UNCHANGED <<selectedAssets, lastClickedCard,
                               allowedSelectionType, openModals>>
                /\ lastEvent' = [op |-> "colorStep"]

(***************************************************************************)
(* SpecBulk: select mode and select-all of the tracker over the searched   *)
(* grid, and the two bulk operations.                                      *)
(***************************************************************************)
InitBulk ==
    /\ assetData = ManifestRegistry(BulkManifest)
    /\ editedAssets = EmptyMap
    /\ exportedDoc = NoDoc
    /\ atExport = EmptyMap
    /\ lastEvent = [op |-> "load", outcome |-> "ok"]
    /\ cards = RenderAssetCards(BulkManifest)
    /\ hiddenCards = {}
    /\ InitSelection
    /\ InitTracker
    /\ InitBulkOperations
    /\ frame = NoFrame

BulkUpload == \E file \in AudioFiles : HandleNewAudioUpload(file)

BulkAudioDecoded == \E file \in decoding : AudioDecoded(file)

BulkApplyAudio ==
    \E trimmedBufferLength \in {0, 1} : ApplyUploadedAudio(trimmedBufferLength)

BulkAudioConverted == \E n \in 1..Len(running) : AudioConverted(n)

BulkColorDecoded == \E n \in 1..Len(running) : ColorDecoded(n)

\* the search narrowed to the jpg assets
BulkSearch ==
    /\ dispatch = "idle"
    /\ HandleSearchInput("jpg")
    /\ UNCHANGED <<regVars, sessVars, pageVars, selVars, trkVars, bulkVars>>

NextBulk ==
    \/ BulkSearch
    \/ TrkClearSearch
    \/ Trk_ToggleSelectMode
    \/ Trk_ModeButtonListener
    \/ Trk_SelectAllDisplayedAssets
    \/ RunCallback
    \/ OpenBulkOperationsModal
    \/ ApplyColorChange
    \/ BulkColorDecoded

SpecBulk == InitBulk /\ [][NextBulk]_vars

(***************************************************************************)
(* SpecBulkExcl: the bulk colour change while the tracker is switched      *)
(* between its two modes and cards are excluded.                           *)
(***************************************************************************)
ExclManifest ==
    <<[key |-> "f1", base64 |-> 0, type |-> "jpg"],
      [key |-> "f3", base64 |-> 0, type |-> "mp3"]>>

InitBulkExcl ==
    /\ assetData = ManifestRegistry(ExclManifest)
    /\ editedAssets = EmptyMap
    /\ exportedDoc = NoDoc
    /\ atExport = EmptyMap
    /\ lastEvent = [op |-> "load", outcome |-> "ok"]
    /\ cards = RenderAssetCards(ExclManifest)
    /\ hiddenCards = {}
    /\ InitSelection
    /\ InitTracker
    /\ InitBulkOperations
    /\ frame = NoFrame

\* a regular click on a card while exclude mode is on
ExclClick ==
    /\ isExcludeMode
    /\ \E k \in SeqRange(cards) : Trk_HandleCardClick(k, FALSE)

NextBulkExcl ==
    \/ ExclClick
    \/ Trk_ToggleSelectMode
    \/ Trk_ToggleExcludeMode
    \/ Trk_ModeButtonListener
    \/ Trk_SelectAllDisplayedAssets
    \/ RunCallback
    \/ OpenBulkOperationsModal
    \/ ApplyColorChange
    \/ BulkColorDecoded

SpecBulkExcl == InitBulkExcl /\ [][NextBulkExcl]_vars

(***************************************************************************)
(* SpecExclRace: the colour change and the two modes over one image, with  *)
(* every click on its card, regular or with the shift key, in either mode. *)
(***************************************************************************)
RaceManifest == <<[key |-> "f1", base64 |-> 0, type |-> "jpg"]>>

InitExclRace ==
    /\ assetData = ManifestRegistry(RaceManifest)
    /\ editedAssets = EmptyMap
    /\ exportedDoc = NoDoc
    /\ atExport = EmptyMap
    /\ lastEvent = [op |-> "load", outcome |-> "ok"]
    /\ cards = RenderAssetCards(RaceManifest)
    /\ hiddenCards = {}
    /\ InitSelection
    /\ InitTracker
    /\ InitBulkOperations
    /\ frame = NoFrame

NextExclRace ==
    \/ TrkClick
    \/ Trk_ToggleSelectMode
    \/ Trk_ToggleExcludeMode
    \/ Trk_ModeButtonListener
    \/ Trk_SelectAllDisplayedAssets
    \/ RunCallback
    \/ OpenBulkOperationsModal
    \/ ApplyColorChange
    \/ BulkColorDecoded

SpecExclRace == InitExclRace /\ [][NextExclRace]_vars

\* the same with the deferred callbacks run sooner or later: the promise of
\* a dynamic import is settled by the browser without any further input
SpecExclFair == SpecExclRace /\ WF_vars(RunCallback)

(***************************************************************************)
(* SpecAudio: select mode and select-all of the tracker over a grid that   *)
(* starts with the audio assets, and the bulk audio replacement.           *)
(***************************************************************************)
AudioManifest ==
    <<[key |-> "f3", base64 |-> 0, type |-> "mp3"],
      [key |-> "f4", base64 |-> 1, type |-> "mp3"],
      [key |-> "f1", base64 |-> 0, type |-> "jpg"]>>

InitAudio ==
    /\ assetData = ManifestRegistry(AudioManifest)
    /\ editedAssets = EmptyMap
    /\ exportedDoc = NoDoc
    /\ atExport = EmptyMap
    /\ lastEvent = [op |-> "load", outcome |-> "ok"]
    /\ cards = RenderAssetCards(AudioManifest)
    /\ hiddenCards = {}
    /\ InitSelection
    /\ InitTracker
    /\ InitBulkOperations
    /\ frame = NoFrame

NextAudio ==
    \/ Trk_ToggleSelectMode
    \/ Trk_ModeButtonListener
    \/ Trk_SelectAllDisplayedAssets
    \/ RunCallback
    \/ OpenBulkOperationsModal
    \/ BulkUpload
    \/ BulkAudioDecoded
    \/ BulkApplyAudio
    \/ BulkAudioConverted

SpecAudio == InitAudio /\ [][NextAudio]_vars

(***************************************************************************)
(* SpecBlend: the pixel loop of applyColorChange followed pixel by pixel.  *)
(* data is the RGBA byte array of the canvas, targetColor the "#RRGGBB"    *)
(* string of the colour picker as its six hex digits, and the strength     *)
(* slider holds a percentage.                                              *)
(***************************************************************************)
HexDigitValue ==
    [d \in {"0", "7", "8", "A", "F"} |->
        CASE d = "0" -> 0 [] d = "7" -> 7 [] d = "8" -> 8
          [] d = "A" -> 10 [] d = "F" -> 15]

\* parseInt(targetColor.substring(a, a + 2), 16) for the digit pair at n
ParseHexPair(targetColor, n) ==
    16 * HexDigitValue[targetColor[n]] + HexDigitValue[targetColor[n + 1]]

\* Math.round of the quotient num / den of two non-negative numbers
RoundQuotient(num, den) == (2 * num + den) \div (2 * den)

\* a store into the Uint8ClampedArray
Uint8Clamped(v) == IF v < 0 THEN 0 ELSE IF v > 255 THEN 255 ELSE v

\* mutant of BlendChannel: the two weights are swapped
BlendChannelSwapped(c, cTarget, strengthPercent) ==
    Uint8Clamped(RoundQuotient(c * strengthPercent
                               + cTarget * (100 - strengthPercent), 100))

\* Math.round(c * (1 - strength) + cTarget * strength), the strength being
\* strengthPercent / 100
BlendChannel(c, cTarget, strengthPercent) ==
    Uint8Clamped(RoundQuotient(c * (100 - strengthPercent)
                               + cTarget * strengthPercent, 100))

BlendImages ==
    {<<0, 0, 0, 255,  255, 255, 255, 0>>,
     <<10, 127, 200, 128,  1, 254, 128, 77>>,
     <<255, 0, 128, 1,  127, 127, 127, 254>>}

BlendTargets ==
    {<<"0", "0", "0", "0", "0", "0">>,
     <<"F", "F", "F", "F", "F", "F">>,
     <<"F", "F", "0", "0", "7", "8">>,
     <<"0", "A", "8", "0", "F", "7">>}

BlendStrengths == {0, 1, 33, 50, 99, 100}

\* the loop as it starts: the pixels drawn from the asset, the array that
\* is written, the picker, the slider and the loop index (0-based)
BlendFrames ==
    {[fn |-> "applyColorChange", source |-> img, data |-> img,
      targetColor |-> t, strengthPercent |-> p, j |-> 0] :
        img \in BlendImages, t \in BlendTargets, p \in BlendStrengths}

\* one iteration: data[j], data[j + 1], data[j + 2] are blended towards the
\* target, data[j + 3] is not written
BlendPixel ==
    LET j       == frame.j
        rTarget == ParseHexPair(frame.targetColor, 1)
        gTarget == ParseHexPair(frame.targetColor, 3)
        bTarget == ParseHexPair(frame.targetColor, 5)
        p       == frame.strengthPercent
    IN  /\ frame.fn = "applyColorChange"
        /\ j < Len(frame.data)
        /\ frame' = [frame EXCEPT
               !.data = [@ EXCEPT
                   ![j + 1] = BlendChannel(frame.data[j + 1], rTarget, p),
                   ![j + 2] = BlendChannel(frame.data[j + 2], gTarget, p),
                   ![j + 3] = BlendChannel(frame.data[j + 3], bTarget, p)],
               !.j = j + 4]
        /\ lastEvent' = [op |-> "blendPixel"]
        /\ UNCHANGED <<regVars, sessVars, trimVars, loadingOverlay, gridVars,
                       selVars, trkVars, bulkVars>>
        /\ UNCHANGED disabledButtons

InitBlend ==
    /\ assetData = ManifestRegistry(BulkManifest)
    /\ editedAssets = EmptyMap
    /\ exportedDoc = NoDoc
    /\ atExport = EmptyMap
    /\ lastEvent = [op |-> "load", outcome |-> "ok"]
    /\ cards = RenderAssetCards(BulkManifest)
    /\ hiddenCards = {}
    /\ InitSelection
    /\ InitTracker
    /\ InitBulkOperations
    /\ frame \in BlendFrames

NextBlend == BlendPixel

SpecBlend == InitBlend /\ [][NextBlend]_vars

(***************************************************************************)
(* SpecTrim: the bulk audio replacement with the trim sliders; the markup  *)
(* of the two range inputs is taken to give them the minimum 0 and a step  *)
(* of one hundredth of a second.                                           *)
(***************************************************************************)
\* mutant of HandleTrimSliderInput: the other slider is not moved along
HandleTrimSliderInputNoClamp(target, v) ==
    /\ "mp3" \in openModals
    /\ uploadedAudioBuffer # <<>>
    /\ v \in 0..trimEndSlider.max
    /\ trimStartSlider' = IF target = "trim-start-slider"
                          THEN SetSliderValue(trimStartSlider, v)
                          ELSE trimStartSlider
    /\ trimEndSlider' = IF target = "trim-end-slider"
                        THEN SetSliderValue(trimEndSlider, v)
                        ELSE trimEndSlider
    /\ lastEvent' = [op |-> "handleTrimSliderInput", target |-> target,
                     clamped |-> FALSE]
    /\ UNCHANGED <<regVars, sessVars, loadingOverlay, frame, gridVars,
                   selVars, trkVars, bulkVars>>
    /\ UNCHANGED disabledButtons

\* the user drags one of the sliders to v and its input event is handled:
\* a start above the end pulls the end up, an end below the start pulls the
\* start down (toFixed(2) of a value with two decimals is that value)
HandleTrimSliderInput(target, v) ==
    LET moved == IF target = "trim-start-slider"
                 THEN [start |-> SetSliderValue(trimStartSlider, v),
                       end   |-> trimEndSlider]
                 ELSE [start |-> trimStartSlider,
                       end   |-> SetSliderValue(trimEndSlider, v)]
        startValue == moved.start.value
        endValue   == moved.end.value
    IN  /\ "mp3" \in openModals
        /\ uploadedAudioBuffer # <<>>
        /\ v \in 0..trimEndSlider.max
        /\ trimStartSlider' =
               IF target = "trim-end-slider" /\ endValue < startValue
               THEN SetSliderValue(moved.start, endValue)
               ELSE moved.start
        /\ trimEndSlider' =
               IF target = "trim-start-slider" /\ startValue > endValue
               THEN SetSliderValue(moved.end, startValue)
               ELSE moved.end
        /\ lastEvent' = [op |-> "handleTrimSliderInput", target |-> target,
                         clamped |-> (startValue > endValue)]
        /\ UNCHANGED <<regVars, sessVars, loadingOverlay, frame, gridVars,
                       selVars, trkVars, bulkVars>>
        /\ UNCHANGED disabledButtons

\* Math.floor(trimStartTime * sampleRate), the slider value being hundredths
StartSample ==
    (trimStartSlider.value * uploadedAudioBuffer[1].sampleRate) \div 100

\* Math.floor(trimEndTime * sampleRate), cut to the length of the buffer
EndSample ==
    LET endSample ==
            (trimEndSlider.value * uploadedAudioBuffer[1].sampleRate) \div 100
    IN  IF endSample > uploadedAudioBuffer[1].length
        THEN uploadedAudioBuffer[1].length ELSE endSample

TrimmedBufferLength ==
    IF uploadedAudioBuffer = <<>> THEN 0 ELSE EndSample - StartSample

TrimSliderInput ==
    \E target \in {"trim-start-slider", "trim-end-slider"},
       v \in 0..trimEndSlider.max : HandleTrimSliderInput(target, v)

TrimApplyAudio == ApplyUploadedAudio(TrimmedBufferLength)

NextTrim ==
    \/ Trk_ToggleSelectMode
    \/ Trk_ModeButtonListener
    \/ Trk_SelectAllDisplayedAssets
    \/ RunCallback
    \/ OpenBulkOperationsModal
    \/ BulkUpload
    \/ BulkAudioDecoded
    \/ TrimSliderInput
    \/ TrimApplyAudio
    \/ BulkAudioConverted

SpecTrim == InitAudio /\ [][NextTrim]_vars

(***************************************************************************)
(* SpecMp3: convertAudioBufferToMp3 followed block by block.  A sample     *)
(* chunk is the pair <<begin, end>> of the indices it spans in its         *)
(* channel; mp3encoder is the list of the calls made on the encoder.       *)
(***************************************************************************)
sampleBlockSize == 1152

\* sample counts of the buffers handed to the converter, around the
\* multiples of the block size
Mp3Lengths ==
    {0, 1, sampleBlockSize - 1, sampleBlockSize, sampleBlockSize + 1,
     2 * sampleBlockSize - 1, 2 * sampleBlockSize, 2 * sampleBlockSize + 1,
     3 * sampleBlockSize, 3 * sampleBlockSize + 7}

\* the converter as it enters its loop: the buffer, at which call (if any)
\* the encoder throws, the loop index and the calls made so far
Mp3Frames ==
    [fn : {"convertAudioBufferToMp3"},
     numberOfChannels : {1, 2, 3},
     length : Mp3Lengths,
     throwsAt : {0, 2},
     i : {0},
     mp3encoder : {<<>>},
     settled : {"no"}]

\* TypedArray.subarray(begin, end): both ends are cut to the length
Subarray(length, begin, end) ==
    <<IF begin > length THEN length ELSE begin,
      IF end > length THEN length ELSE end>>

\* mutant of Mp3EncodeBlock: the index advances one sample too far
Mp3EncodeBlockSkipsSample ==
    LET sampleChunk == Subarray(frame.length, frame.i,
                                frame.i + sampleBlockSize)
    IN  /\ frame.fn = "convertAudioBufferToMp3"
        /\ frame.settled = "no"
        /\ frame.numberOfChannels \in {1, 2}
        /\ frame.i < frame.length
        /\ frame' =
               IF Len(frame.mp3encoder) + 1 = frame.throwsAt
               THEN [frame EXCEPT !.settled = "rejected"]
               ELSE [frame EXCEPT
                        !.i = @ + sampleBlockSize + 1,
                        !.mp3encoder = Append(@,
                            [method |-> "encodeBuffer",
                             left   |-> sampleChunk,
                             right  |-> IF frame.numberOfChannels = 2
                                        THEN sampleChunk ELSE <<>>])]
        /\ lastEvent' = [op |-> "encodeBuffer"]
        /\ UNCHANGED <<regVars, sessVars, trimVars, loadingOverlay, gridVars,
                       selVars, trkVars, bulkVars>>
        /\ UNCHANGED disabledButtons

\* one iteration of the loop: the chunk of each channel is cut at the same
\* indices and handed to encodeBuffer, which may throw
Mp3EncodeBlock ==
    LET sampleChunk == Subarray(frame.length, frame.i,
                                frame.i + sampleBlockSize)
    IN  /\ frame.fn = "convertAudioBufferToMp3"
        /\ frame.settled = "no"
        /\ frame.numberOfChannels \in {1, 2}
        /\ frame.i < frame.length
        /\ frame' =
               IF Len(frame.mp3encoder) + 1 = frame.throwsAt
               THEN [frame EXCEPT !.settled = "rejected"]
               ELSE [frame EXCEPT
                        !.i = @ + sampleBlockSize,
                        !.mp3encoder = Append(@,
                            [method |-> "encodeBuffer",
                             left   |-> sampleChunk,
                             right  |-> IF frame.numberOfChannels = 2
                                        THEN sampleChunk ELSE <<>>])]
        /\ lastEvent' = [op |-> "encodeBuffer"]
        /\ UNCHANGED <<regVars, sessVars, trimVars, loadingOverlay, gridVars,
                       selVars, trkVars, bulkVars>>
        /\ UNCHANGED disabledButtons

\* after the loop: flush, and the promise resolves with the encoded data
Mp3Flush ==
    /\ frame.fn = "convertAudioBufferToMp3"
    /\ frame.settled = "no"
    /\ frame.numberOfChannels \in {1, 2}
    /\ frame.i >= frame.length
    /\ frame' = [frame EXCEPT
                    !.mp3encoder = Append(@, [method |-> "flush"]),
                    !.settled = "resolved"]
    /\ lastEvent' = [op |-> "flush"]
    /\ UNCHANGED <<regVars, sessVars, trimVars, loadingOverlay, gridVars,
                   selVars, trkVars, bulkVars>>
    /\ UNCHANGED disabledButtons

\* a buffer with another channel count is rejected before any call
Mp3Unsupported ==
    /\ frame.fn = "convertAudioBufferToMp3"
    /\ frame.settled = "no"
    /\ frame.numberOfChannels \notin {1, 2}
    /\ frame' = [frame EXCEPT !.settled = "rejected"]
    /\ lastEvent' = [op |-> "unsupportedChannels"]
    /\ UNCHANGED <<regVars, sessVars, trimVars, loadingOverlay, gridVars,
                   selVars, trkVars, bulkVars>>
    /\ UNCHANGED disabledButtons

InitMp3 ==
    /\ assetData = ManifestRegistry(AudioManifest)
    /\ editedAssets = EmptyMap
    /\ exportedDoc = NoDoc
    /\ atExport = EmptyMap
    /\ lastEvent = [op |-> "load", outcome |-> "ok"]
    /\ cards = RenderAssetCards(AudioManifest)
    /\ hiddenCards = {}
    /\ InitSelection
    /\ InitTracker
    /\ InitBulkOperations
    /\ frame \in Mp3Frames

NextMp3 == Mp3EncodeBlock \/ Mp3Flush \/ Mp3Unsupported

SpecMp3 == InitMp3 /\ [][NextMp3]_vars

(***************************************************************************)
(* js/fileHandling.js without the exclusion flag: update, session export   *)
(* and session import.                                                     *)
(***************************************************************************)
\* updateAssetInMemory: the record keeps no originalType, so the entry's
\* originalType falls back to the type the call has just written
FH_UpdateAssetInMemory(ad, ea, k, newBase64Data, newType) ==
    IF Has(ad, k)
    THEN [ad |-> [ad EXCEPT ![k] = [@ EXCEPT !.currentBase64 = newBase64Data,
                                             !.isEdited = TRUE,
                                             !.type = newType]],
          ea |-> Put(ea, k, [base64Data       |-> newBase64Data,
                             type             |-> newType,
                             originalFileName |-> k,
                             originalType     |-> newType])]
    ELSE [ad |-> ad, ea |-> ea]

\* a direct call of updateAssetInMemory
FH_UpdateCall(k, b, t) ==
    LET r == FH_UpdateAssetInMemory(assetData, editedAssets, k, b, t)
    IN  /\ assetData' = r.ad
        /\ editedAssets' = r.ea
        /\ lastEvent' = [op |-> "update", key |-> k,
                         outcome |-> IF Has(assetData, k) THEN "ok"
                                     ELSE "notFound"]
        /\ UNCHANGED <<sessVars, pageVars, gridVars, selVars, trkVars, bulkVars>>

\* the keys of an imported document in the order they are walked
DocKeys(doc) ==
    LET order == <<"f1", "f2", "f3", "f4", "f9">>
    IN  SelectSeq(order, LAMBDA k : Has(doc, k))

\* importChanges: updateAssetInMemory for each entry of the document whose
\* key is in the registry
RECURSIVE FH_ApplyImported(_, _, _)
FH_ApplyImported(reg, doc, ks) ==
    IF ks = <<>> THEN reg
    ELSE LET k == Head(ks)
         IN  FH_ApplyImported(
                 IF Has(reg.ad, k)
                 THEN FH_UpdateAssetInMemory(reg.ad, reg.ea, k,
                                             doc[k].base64Data, doc[k].type)
                 ELSE reg,
                 doc, Tail(ks))

\* importChanges: editedAssets is emptied, assetData
\* is left as it is, and the entries of the document are applied
FH_ImportChanges(file) ==
    IF file.valid
    THEN LET r == FH_ApplyImported([ad |-> assetData, ea |-> EmptyMap],
                                   file.data, DocKeys(file.data))
         IN  /\ assetData' = r.ad
             /\ editedAssets' = r.ea
             /\ lastEvent' = [op |-> "import", outcome |-> "ok",
                              doc |-> file.data]
             /\ UNCHANGED <<sessVars, pageVars, gridVars, selVars, trkVars, bulkVars>>
    ELSE /\ lastEvent' = [op |-> "import", outcome |-> "invalid",
                          doc |-> EmptyMap]
         /\ UNCHANGED <<regVars, sessVars, pageVars, gridVars, selVars, trkVars,
                        bulkVars>>

\* exportChanges: the document is editedAssets as it stands
FH_ExportChanges ==
    /\ IF editedAssets = EmptyMap
       THEN /\ lastEvent' = [op |-> "export", outcome |-> "nothing"]
            /\ UNCHANGED sessVars
       ELSE /\ exportedDoc' = [present |-> TRUE, doc |-> editedAssets]
            /\ UNCHANGED atExport
            /\ lastEvent' = [op |-> "export", outcome |-> "ok"]
    /\ UNCHANGED <<regVars, gridVars, selVars, trkVars, bulkVars, pageVars>>

\* session documents offered to the import: not JSON, empty, one entry, and
\* one with an unknown key
FH_SampleFiles ==
    {[valid |-> FALSE, data |-> EmptyMap],
     [valid |-> TRUE, data |-> EmptyMap],
     [valid |-> TRUE, data |-> [f1 |-> [base64Data |-> 1, type |-> "png"]]],
     [valid |-> TRUE,
      data |-> [f3 |-> [base64Data |-> 1, type |-> "mp3"],
                f9 |-> [base64Data |-> 0, type |-> "jpg"]]]}

FH_ImportFiles ==
    FH_SampleFiles \cup
        (IF exportedDoc.present
         THEN {[valid |-> TRUE, data |-> exportedDoc.doc]} ELSE {})

(***************************************************************************)
(* SpecImport: edits, session export and session import of the registry    *)
(* without the exclusion flag.                                             *)
(***************************************************************************)
\* the assets the editors are opened on, and an edit of a key that is not
\* in the registry
FH_EditKeys == {"f1", "f3", "f9"}

FHEdit ==
    \E k \in FH_EditKeys :
        \E b \in Bytes :
            \E t \in (IF Has(assetData, k)
                       THEN FamilyTypes(FileTypeOfKey[k]) ELSE {"jpg"}) :
                FH_UpdateCall(k, b, t)

FHImport == \E file \in FH_ImportFiles : FH_ImportChanges(file)

NextImport == FHEdit \/ FH_ExportChanges \/ FHImport

SpecImport == InitSel /\ [][NextImport]_vars

(***************************************************************************)
(* js/bulkOperations.js of the generation without the exclusion flag: the  *)
(* bulk image adjustments over the selection of the select-only tracker.   *)
(***************************************************************************)
\* canvas.toDataURL of the filtered image: the re-encoded payload
AdjustPixels(base64Data) == (base64Data + 1) % (MaxByte + 1)

\* the text of the alert that ends a batch of adjustments
AdjustmentsAppliedAlert == "Image adjustments applied to selected assets."

\* openBulkOperationsModal of js/ui.js shows one modal and hides the other
HandleEditSelected ==
    LET selected == Sel_GetSelectedAssets
    IN  /\ openModals' =
               IF Len(selected) = 0 THEN openModals
               ELSE IF allowedSelectionType \in {"image", "mp3"}
                    THEN {allowedSelectionType}
                    ELSE openModals
        /\ lastEvent' = [op |-> "handleEditSelected"]
        /\ UNCHANGED <<regVars, sessVars, pageVars, gridVars, selVars, trkVars,
                       running, uploadedAudioBuffer, uploadedImage, decoding>>

\* the close button of a modal: closeBulkOperationsModal of js/ui.js hides
\* the modal and leaves the selection alone
UI_CloseBulkOperationsModal(type) ==
    /\ type \in openModals
    /\ openModals' = openModals \ {type}
    /\ lastEvent' = [op |-> "closeModal"]
    /\ UNCHANGED <<regVars, sessVars, pageVars, gridVars, selVars, trkVars,
                   running, uploadedAudioBuffer, uploadedImage, decoding>>

\* applyImageAdjustments up to its first await
ApplyImageAdjustments ==
    LET selected == Sel_GetSelectedAssets
        first    == NextImageIndex(selected, 1)
    IN  /\ "image" \in openModals
        /\ UNCHANGED <<regVars, sessVars, pageVars, gridVars, selVars, trkVars,
                       uploadedAudioBuffer, uploadedImage, decoding>>
        /\ IF Len(selected) = 0
           THEN /\ UNCHANGED <<running, openModals>>
                /\ lastEvent' = [op |-> "applyImageAdjustments",
                                 outcome |-> "noSelection"]
           ELSE IF first > Len(selected)
           THEN /\ UNCHANGED running
                /\ openModals' = openModals \ {"image"}
                /\ lastEvent' = [op |-> "adjustEnd",
                                 alert |-> [message |-> AdjustmentsAppliedAlert],
                                 selected |-> selected, updated |-> {},
                                 logged |-> {}]
           ELSE /\ Len(running) < MaxRunning
                /\ running' = Append(running,
                       [kind |-> "adjust", selected |-> selected,
                        i |-> first, updated |-> {}, logged |-> {}])
                /\ UNCHANGED openModals
                /\ lastEvent' = [op |-> "applyImageAdjustments",
                                 outcome |-> "started"]

\* the image the batch waits for loaded (it is filtered, re-encoded and
\* stored) or failed to load (console.error names the file, the promise is
\* resolved all the same); after the last asset the alert is shown and the
\* modal closed
AdjustDecoded(n) ==
    LET o     == running[n]
        asset == o.selected[o.i]
        ok    == Decodable(asset.base64Data)
        r     == IF ok
                 THEN FH_UpdateAssetInMemory(assetData, editedAssets,
                          asset.key, AdjustPixels(asset.base64Data),
                          asset.type)
                 ELSE [ad |-> assetData, ea |-> editedAssets]
        upd   == IF ok THEN o.updated \cup {asset.key} ELSE o.updated
        lg    == IF ok THEN o.logged ELSE o.logged \cup {asset.key}
        next  == NextImageIndex(o.selected, o.i + 1)
    IN  /\ o.kind = "adjust"
        /\ assetData' = r.ad
        /\ editedAssets' = r.ea
        /\ UNCHANGED <<sessVars, pageVars, gridVars, selVars, trkVars,
                       uploadedAudioBuffer, uploadedImage, decoding>>
        /\ IF next > Len(o.selected)
           THEN /\ running' = RemoveAt(running, n)
                /\ openModals' = openModals \ {"image"}
                /\ lastEvent' = [op |-> "adjustEnd",
                                 alert |-> [message |-> AdjustmentsAppliedAlert],
                                 selected |-> o.selected, updated |-> upd,
                                 logged |-> lg]
           ELSE /\ running' = [running EXCEPT ![n] =
                                  [o EXCEPT !.i = next, !.updated = upd,
                                            !.logged = lg]]
                /\ UNCHANGED openModals
                /\ lastEvent' = [op |-> "adjustStep"]

(***************************************************************************)
(* SpecAdj: the select-only tracker and the bulk image adjustments.        *)
(***************************************************************************)
AdjCloseModal == \E type \in {"image", "mp3"} : UI_CloseBulkOperationsModal(type)

AdjDecoded == \E n \in 1..Len(running) : AdjustDecoded(n)

NextAdj ==
    \/ SelClick
    \/ Sel_ToggleSelectMode
    \/ Sel_SelectAllDisplayedAssets
    \/ HandleEditSelected
    \/ AdjCloseModal
    \/ ApplyImageAdjustments
    \/ AdjDecoded

SpecAdj == InitSel /\ [][NextAdj]_vars

(***************************************************************************)
(* js/bulkOperations.js, image replacement: an uploaded picture is written *)
(* over every selected image.                                              *)
(***************************************************************************)
\* files the user may pick in the upload field; file.type is kept as the
\* two parts around its slash
ImageFiles ==
    {[top |-> "image", sub |-> "jpeg", data |-> 1, readable |-> TRUE],
     [top |-> "image", sub |-> "png",  data |-> 0, readable |-> TRUE],
     [top |-> "image", sub |-> "gif",  data |-> 1, readable |-> FALSE],
     [top |-> "text",  sub |-> "plain", data |-> 0, readable |-> TRUE]}

\* file.type.startsWith('image/')
IsImageFile(file) == file.top = "image"

\* file.type.split('/')[1]
UploadedImageType(file) == file.sub

\* handleNewImageUpload: a file that is not an image resets the upload; an
\* image is handed to a FileReader
HandleNewImageUpload(file) ==
    /\ "image" \in openModals
    /\ IF IsImageFile(file)
       THEN /\ Cardinality(decoding) < MaxDecoding
            /\ decoding' = decoding \cup {file}
            /\ UNCHANGED uploadedImage
       ELSE /\ uploadedImage' = <<>>
            /\ UNCHANGED decoding
    /\ lastEvent' = [op |-> "handleNewImageUpload",
                     outcome |-> IF IsImageFile(file) THEN "reading"
                                 ELSE "notAnImage"]
    /\ UNCHANGED <<regVars, sessVars, pageVars, gridVars, selVars, trkVars,
                   running, openModals, uploadedAudioBuffer>>

\* reader.onload stores the base64 and the type; reader.onerror resets them
ImageRead(file) ==
    /\ file \in decoding
    /\ decoding' = decoding \ {file}
    /\ uploadedImage' =
           IF file.readable
           THEN <<[base64 |-> file.data, type |-> UploadedImageType(file)]>>
           ELSE <<>>
    /\ lastEvent' = [op |-> "imageRead",
                     outcome |-> IF file.readable THEN "ok" ELSE "error"]
    /\ UNCHANGED <<regVars, sessVars, pageVars, gridVars, selVars, trkVars,
                   running, openModals, uploadedAudioBuffer>>

\* updateAssetInMemory with the uploaded bytes and type for each image of
\* the snapshot in turn
RECURSIVE ApplyImageEach(_, _, _)
ApplyImageEach(reg, selected, image) ==
    IF selected = <<>> THEN reg
    ELSE LET asset == Head(selected)
         IN  ApplyImageEach(
                 IF IsImageType(asset.type)
                 THEN FH_UpdateAssetInMemory(reg.ad, reg.ea, asset.key,
                                             image.base64, image.type)
                 ELSE reg,
                 Tail(selected), image)

\* applyUploadedImage: the loop has no await; the modal is closed and the
\* upload reset when it is done
ApplyUploadedImage ==
    LET selected == Sel_GetSelectedAssets
        r == ApplyImageEach([ad |-> assetData, ea |-> editedAssets],
                            selected, uploadedImage[1])
    IN  /\ "image" \in openModals
        /\ UNCHANGED <<sessVars, pageVars, gridVars, selVars, trkVars, running,
                       uploadedAudioBuffer, decoding>>
        /\ IF Len(selected) = 0
           THEN /\ UNCHANGED <<regVars, openModals, uploadedImage>>
                /\ lastEvent' = [op |-> "applyUploadedImage",
                                 outcome |-> "noSelection"]
           ELSE IF uploadedImage = <<>>
           THEN /\ UNCHANGED <<regVars, openModals, uploadedImage>>
                /\ lastEvent' = [op |-> "applyUploadedImage",
                                 outcome |-> "noUpload"]
           ELSE /\ assetData' = r.ad
                /\ editedAssets' = r.ea
                /\ openModals' = openModals \ {"image"}
                /\ uploadedImage' = <<>>
                /\ lastEvent' = [op |-> "applyUploadedImage",
                                 outcome |-> "applied"]

(***************************************************************************)
(* SpecUpload: select mode and select-all of the select-only tracker, the  *)
(* image replacement and the session import.                               *)
(***************************************************************************)
UplUpload == \E file \in ImageFiles : HandleNewImageUpload(file)

UplRead == \E file \in decoding : ImageRead(file)

NextUpload ==
    \/ Sel_ToggleSelectMode
    \/ Sel_SelectAllDisplayedAssets
    \/ HandleEditSelected
    \/ AdjCloseModal
    \/ UplUpload
    \/ UplRead
    \/ ApplyUploadedImage
    \/ FHImport

SpecUpload == InitSel /\ [][NextUpload]_vars

(***************************************************************************)
(* js/bulkOperations.js, new texture: a canvas of the entered size is      *)
(* filled with the picked colour and written, as a PNG, over every         *)
(* selected image.  The width and height fields are texts, read with       *)
(* parseInt; a text is kept as the sequence of its characters.             *)
(***************************************************************************)
\* what the width and height fields may hold: they are number fields, whose
\* value is the empty text unless the entry is a decimal numeral
DimensionValues ==
    {<<>>, <<"0">>, <<"-", "2">>, <<"-", "0", ".", "5">>, <<"1">>, <<"2">>,
     <<"2", ".", "5">>, <<"0", ".", "5">>}

DecimalDigits == <<"0", "1", "2", "3", "4", "5", "6", "7", "8", "9">>

IsDecimalDigit(c) == \E d \in 1..10 : DecimalDigits[d] = c

DecimalDigitValue(c) == (CHOOSE d \in 1..10 : DecimalDigits[d] = c) - 1

\* the number of leading decimal digits of str from position i on
RECURSIVE DigitPrefixLen(_, _)
DigitPrefixLen(str, i) ==
    IF i > Len(str) \/ ~IsDecimalDigit(str[i]) THEN 0
    ELSE 1 + DigitPrefixLen(str, i + 1)

\* the value of the n decimal digits of str that start at position i
RECURSIVE DigitsValue(_, _, _)
DigitsValue(str, i, n) ==
    IF n = 0 THEN 0
    ELSE 10 * DigitsValue(str, i, n - 1) + DecimalDigitValue(str[i + n - 1])

\* parseInt(str): an optional sign and the longest run of digits after it;
\* what follows the digits is ignored, and no digit at all gives NaN
ParseInt(str) ==
    LET signed == str # <<>> /\ str[1] \in {"-", "+"}
        first  == IF signed THEN 2 ELSE 1
        n      == DigitPrefixLen(str, first)
        v      == DigitsValue(str, first, n)
    IN  IF n = 0 THEN [isNaN |-> TRUE, value |-> 0]
        ELSE [isNaN |-> FALSE,
              value |-> IF signed /\ str[1] = "-" THEN 0 - v ELSE v]

\* the text is a decimal numeral: an optional minus sign, digits and, after
\* a point, more digits
IsNumeral(str) ==
    LET first == IF str # <<>> /\ str[1] = "-" THEN 2 ELSE 1
        n     == DigitPrefixLen(str, first)
        m     == DigitPrefixLen(str, first + n + 1)
    IN  /\ n > 0
        /\ \/ first + n = Len(str) + 1
           \/ /\ first + n <= Len(str)
              /\ str[first + n] = "."
              /\ m > 0
              /\ first + n + m = Len(str)

\* the numeral of zero: every digit of it is 0
IsZeroNumeral(str) ==
    /\ IsNumeral(str)
    /\ \A i \in 1..Len(str) : IsDecimalDigit(str[i]) => str[i] = "0"

\* the numeral of a number below zero
IsNegativeNumeral(str) ==
    IsNumeral(str) /\ str[1] = "-" /\ ~IsZeroNumeral(str)

\* mutant of InvalidDimensions: only the width is tested
InvalidDimensionsWidthOnly(width, height) == width.isNaN \/ width.value <= 0

\* isNaN(width) || isNaN(height) || width <= 0 || height <= 0
InvalidDimensions(width, height) ==
    \/ width.isNaN
    \/ height.isNaN
    \/ width.value <= 0
    \/ height.value <= 0

\* canvas.toDataURL('image/png') of the filled canvas: the payload depends
\* on the colour and on the size
SolidFillPng(color, width, height) == (color + width * height) % (MaxByte + 1)

\* updateAssetInMemory(..., newBase64Content, 'png') for each image of the
\* snapshot in turn
RECURSIVE GenerateEach(_, _, _)
GenerateEach(reg, selected, newBase64Content) ==
    IF selected = <<>> THEN reg
    ELSE LET asset == Head(selected)
         IN  GenerateEach(
                 IF IsImageType(asset.type)
                 THEN FH_UpdateAssetInMemory(reg.ad, reg.ea, asset.key,
                                             newBase64Content, "png")
                 ELSE reg,
                 Tail(selected), newBase64Content)

\* generateNewTexture: nothing in it waits, so it is one step
GenerateNewTexture(color, widthValue, heightValue) ==
    LET selected == Sel_GetSelectedAssets
        width    == ParseInt(widthValue)
        height   == ParseInt(heightValue)
        r == GenerateEach([ad |-> assetData, ea |-> editedAssets], selected,
                          SolidFillPng(color, width.value, height.value))
    IN  /\ "image" \in openModals
        /\ UNCHANGED <<sessVars, trimVars, frame, gridVars, selVars, trkVars,
                       running, uploadedAudioBuffer, uploadedImage, decoding>>
        /\ IF Len(selected) = 0
           THEN /\ UNCHANGED <<regVars, openModals, loadingOverlay>>
                /\ lastEvent' = [op |-> "generateNewTexture",
                                 width |-> widthValue, height |-> heightValue,
                                 outcome |-> "noSelection"]
           ELSE IF InvalidDimensions(width, height)
           THEN /\ UNCHANGED <<regVars, openModals, loadingOverlay>>
                /\ lastEvent' = [op |-> "generateNewTexture",
                                 width |-> widthValue, height |-> heightValue,
                                 outcome |-> "invalid"]
           ELSE /\ assetData' = r.ad
                /\ editedAssets' = r.ea
                /\ loadingOverlay' = FALSE
                /\ openModals' = openModals \ {"image"}
                /\ lastEvent' = [op |-> "generateNewTexture",
                                 width |-> widthValue, height |-> heightValue,
                                 outcome |-> "generated"]
        /\ UNCHANGED disabledButtons

(***************************************************************************)
(* SpecGenerate: the select-only tracker, the image modal and the new      *)
(* texture.                                                                *)
(***************************************************************************)
GenClick == \E k \in SeqRange(cards) : Sel_HandleCardClick(k, FALSE)

GenGenerate ==
    \E color \in Bytes, widthValue \in DimensionValues,
       heightValue \in DimensionValues :
        GenerateNewTexture(color, widthValue, heightValue)

NextGenerate ==
    \/ Sel_ToggleSelectMode
    \/ GenClick
    \/ Sel_SelectAllDisplayedAssets
    \/ HandleEditSelected
    \/ AdjCloseModal
    \/ GenGenerate

SpecGenerate == InitSel /\ [][NextGenerate]_vars

(***************************************************************************)
(* js/bulkOperations.js of the texture-only generation: the texture        *)
(* adjustments start every selected image at once and wait for all of      *)
(* them with Promise.all.                                                  *)
(***************************************************************************)
\* the registry and the grid of the texture specification
TexJson == [f1 |-> 0, f5 |-> 1]

TexRegistry ==
    [k \in DOMAIN TexJson |-> FH_LoadRecord(TexJson[k], FileTypeOfKey[k])]

TexCards == <<"f1", "f5">>

\* handleEditSelectedClick: the modal opens when something is selected
HandleEditSelectedClick ==
    /\ openModals' = IF Len(Sel_GetSelectedAssets) = 0 THEN openModals
                     ELSE openModals \cup {"image"}
    /\ lastEvent' = [op |-> "handleEditSelectedClick"]
    /\ UNCHANGED <<regVars, sessVars, pageVars, gridVars, selVars, trkVars,
                   running, uploadedAudioBuffer, uploadedImage, decoding>>

\* closeBulkTextureModal, as the close button calls it
CloseBulkTextureModal ==
    /\ "image" \in openModals
    /\ openModals' = openModals \ {"image"}
    /\ lastEvent' = [op |-> "closeBulkTextureModal"]
    /\ UNCHANGED <<regVars, sessVars, pageVars, gridVars, selVars, trkVars,
                   running, uploadedAudioBuffer, uploadedImage, decoding>>

\* applyTextureAdjustments: imageAssets.map creates one promise per image
\* and sets img.src of each before any of them has loaded; loading holds
\* the positions whose image has not settled, encoding those whose canvas
\* is being turned into base64, order the keys in the order they were stored
ApplyTextureAdjustments ==
    LET selected == Sel_GetSelectedAssets
        imageAssets == SelectSeq(selected, LAMBDA a : IsImageType(a.type))
    IN  /\ "image" \in openModals
        /\ UNCHANGED <<regVars, sessVars, pageVars, gridVars, selVars, trkVars,
                       openModals, uploadedAudioBuffer,
                       uploadedImage, decoding>>
        /\ IF Len(imageAssets) = 0
           THEN /\ UNCHANGED running
                /\ lastEvent' = [op |-> "applyTextureAdjustments",
                                 outcome |-> "noImages"]
           ELSE /\ Len(running) < MaxRunning
                /\ running' = Append(running,
                       [kind |-> "texture", selected |-> imageAssets,
                        loading |-> 1..Len(imageAssets), encoding |-> {},
                        order |-> <<>>])
                /\ lastEvent' = [op |-> "applyTextureAdjustments",
                                 outcome |-> "started"]

\* Promise.all has settled: the alert is shown and the modal closed
TextureSettled(o) == o.loading = {} /\ o.encoding = {}

\* img.onload or img.onerror of one of the images of a batch
TextureLoaded(n, i) ==
    LET o  == running[n]
        ok == Decodable(o.selected[i].base64Data)
        o2 == [o EXCEPT !.loading = @ \ {i},
                        !.encoding = IF ok THEN @ \cup {i} ELSE @]
    IN  /\ o.kind = "texture"
        /\ i \in o.loading
        /\ UNCHANGED <<regVars, sessVars, pageVars, gridVars, selVars, trkVars,
                       uploadedAudioBuffer, uploadedImage, decoding>>
        /\ IF TextureSettled(o2)
           THEN /\ running' = RemoveAt(running, n)
                /\ openModals' = openModals \ {"image"}
                /\ lastEvent' = [op |-> "textureEnd",
                                 selected |-> o.selected, order |-> o.order]
           ELSE /\ running' = [running EXCEPT ![n] = o2]
                /\ UNCHANGED openModals
                /\ lastEvent' = [op |-> "textureLoaded"]

\* canvas.toBlob and blobToBase64 of one image have finished: the asset is
\* stored
TextureEncoded(n, i) ==
    LET o     == running[n]
        asset == o.selected[i]
        r     == FH_UpdateAssetInMemory(assetData, editedAssets, asset.key,
                     AdjustPixels(asset.base64Data), asset.type)
        o2    == [o EXCEPT !.encoding = @ \ {i},
                           !.order = Append(@, asset.key)]
    IN  /\ o.kind = "texture"
        /\ i \in o.encoding
        /\ assetData' = r.ad
        /\ editedAssets' = r.ea
        /\ UNCHANGED <<sessVars, pageVars, gridVars, selVars, trkVars,
                       uploadedAudioBuffer, uploadedImage, decoding>>
        /\ IF TextureSettled(o2)
           THEN /\ running' = RemoveAt(running, n)
                /\ openModals' = openModals \ {"image"}
                /\ lastEvent' = [op |-> "textureEnd",
                                 selected |-> o.selected, order |-> o2.order]
           ELSE /\ running' = [running EXCEPT ![n] = o2]
                /\ UNCHANGED openModals
                /\ lastEvent' = [op |-> "textureStored"]

(***************************************************************************)
(* SpecTexture: select mode and select-all of the select-only tracker and   *)
(* the texture adjustments.                                                *)
(***************************************************************************)
InitTexture ==
    /\ assetData = TexRegistry
    /\ editedAssets = EmptyMap
    /\ exportedDoc = NoDoc
    /\ atExport = EmptyMap
    /\ lastEvent = [op |-> "load", outcome |-> "ok"]
    /\ cards = TexCards
    /\ hiddenCards = {}
    /\ InitSelection
    /\ InitTracker
    /\ InitBulkOperations
    /\ frame = NoFrame

TexLoaded ==
    \E n \in 1..Len(running) :
        \E i \in 1..Len(running[n].selected) : TextureLoaded(n, i)

TexEncoded ==
    \E n \in 1..Len(running) :
        \E i \in 1..Len(running[n].selected) : TextureEncoded(n, i)

NextTexture ==
    \/ Sel_ToggleSelectMode
    \/ Sel_SelectAllDisplayedAssets
    \/ HandleEditSelectedClick
    \/ CloseBulkTextureModal
    \/ ApplyTextureAdjustments
    \/ TexLoaded
    \/ TexEncoded

SpecTexture == InitTexture /\ [][NextTexture]_vars

(***************************************************************************)
(* js/export.js: the ZIP archive of all assets.                            *)
(***************************************************************************)
\* a non-empty string that atob rejects even after base64ToBlob has padded
\* and stripped it, and the empty string
MalformedBase64 == MaxByte + 2

EmptyBase64 == MaxByte + 3

\* the check made on fileContent before a blob is built
IsNonEmptyString(base64) == base64 # EmptyBase64

\* base64ToBlob returns a blob (TRUE) or throws (FALSE)
Base64ToBlob(base64) == IsNonEmptyString(base64) /\ base64 # MalformedBase64

\* folderNumber and fileName of the assets of the archive specification
ZipFolderNumber == [f1 |-> "100", f2 |-> "100", f3 |-> "200"]

ZipFileName == [f1 |-> "a.jpg", f2 |-> "b.png", f3 |-> "a.mp3"]

ZipManifest ==
    [f1 |-> [base64 |-> 0, type |-> "jpg"],
     f2 |-> [base64 |-> MalformedBase64, type |-> "png"],
     f3 |-> [base64 |-> 1, type |-> "mp3"]]

\* the answers prompt() can give: the two options, any other text, and null
\* when the dialog is cancelled
ExportOptions == {"client", "browser", "other", "null"}

RootFolder(exportOption) ==
    IF exportOption = "client" THEN "Venge Client/" ELSE "Venge Client Browser/"

\* zipPath: <root>files/assets/<folderNumber>/1/<fileName>
ZipPath(rootFolder, k) ==
    <<rootFolder, "files", "assets", ZipFolderNumber[k], "1", ZipFileName[k]>>

\* the static folders of the client export
ClientFolders(rootFolder) ==
    {<<rootFolder, f>> : f \in {"CSS", "Resource Swapper", "Skin Swapper",
                                "Userscript"}}

\* assets/browser-export-static-files.json when it can be fetched
BrowserStaticFiles ==
    {[filePath |-> "js/some_script.js", content |-> 0],
     [filePath |-> "css/styles.css", content |-> EmptyBase64],
     [filePath |-> "css/broken.css", content |-> MalformedBase64]}

\* the static files of the browser export that end up in the archive
StaticEntries(rootFolder, staticFiles) ==
    {<<rootFolder, f.filePath>> :
        f \in {g \in staticFiles : Base64ToBlob(g.content)}}

\* the content written for an asset: the editedAssets entry when there is
\* one, the original bytes otherwise
ZipFileContent(ad, ea, k) ==
    IF Has(ea, k) THEN ea[k].base64Data ELSE ad[k].originalBase64

\* mutant of ZipIncludes: the exclusion flags are not looked at
ZipIncludesExcluded(ad, ea, k) ==
    /\ IsNonEmptyString(ZipFileContent(ad, ea, k))
    /\ Base64ToBlob(ZipFileContent(ad, ea, k))

\* whether the loop of downloadAllAssetsAsZip reaches zip.file for the asset
ZipIncludes(ad, ea, k) ==
    /\ ~ad[k].isExcluded
    /\ ~(Has(ea, k) /\ ea[k].isExcluded)
    /\ IsNonEmptyString(ZipFileContent(ad, ea, k))
    /\ Base64ToBlob(ZipFileContent(ad, ea, k))

\* downloadAllAssetsAsZip: a cancelled prompt throws on toLowerCase before
\* anything is built, any other text is refused, and the two options build
\* and download the archive
DownloadAllAssetsAsZip(exportOption, staticFiles) ==
    LET rootFolder == RootFolder(exportOption)
        assets == {ZipPath(rootFolder, k) :
                      k \in {x \in DOMAIN assetData :
                                ZipIncludes(assetData, editedAssets, x)}}
    IN  /\ lastEvent' =
               IF exportOption = "null"
               THEN [op |-> "zip", outcome |-> "threw"]
               ELSE IF exportOption \notin {"client", "browser"}
               THEN [op |-> "zip", outcome |-> "invalidOption"]
               ELSE [op |-> "zip", outcome |-> "ok",
                     rootFolder |-> rootFolder,
                     entries |->
                         assets \cup
                         (IF exportOption = "client"
                          THEN ClientFolders(rootFolder)
                          ELSE StaticEntries(rootFolder, staticFiles))]
        /\ UNCHANGED <<regVars, sessVars, pageVars, gridVars, selVars, trkVars,
                       bulkVars>>

\* session documents with payloads the archive cannot hold
ZipSampleFiles ==
    {[valid |-> TRUE,
      data  |-> [f1 |-> [base64Data |-> EmptyBase64, type |-> "jpg"],
                 f3 |-> [base64Data |-> MalformedBase64, type |-> "mp3"]]],
     [valid |-> TRUE,
      data  |-> [f2 |-> [base64Data |-> 1, type |-> "png"],
                 f3 |-> [base64Data |-> 0, type |-> "mp3",
                         isExcluded |-> TRUE]]]}

(***************************************************************************)
(* SpecZip: edits, exclusions and imports of the registry, and the archive *)
(* built from it.                                                          *)
(***************************************************************************)
InitZip ==
    /\ assetData = LoadAllAssetsIntoMemory(ZipManifest)
    /\ editedAssets = EmptyMap
    /\ exportedDoc = NoDoc
    /\ atExport = EmptyMap
    /\ lastEvent = [op |-> "load", outcome |-> "ok"]
    /\ cards = <<"f1", "f2", "f3">>
    /\ hiddenCards = {}
    /\ InitSelection
    /\ InitTracker
    /\ InitBulkOperations
    /\ frame = NoFrame

ZipEdit ==
    \E k \in DOMAIN assetData :
        \E b \in Bytes, ex \in ExcludeArgs :
            UpdateCall(k, b, assetData[k].originalType, ex)

ZipImport == \E file \in ZipSampleFiles : ImportChanges(file)

ZipDownload ==
    \E exportOption \in ExportOptions :
        \E staticFiles \in {{}, BrowserStaticFiles} :
            DownloadAllAssetsAsZip(exportOption, staticFiles)

NextZip == ZipEdit \/ ZipImport \/ ZipDownload

SpecZip == InitZip /\ [][NextZip]_vars

(***************************************************************************)
(* js/main.js, js/fileHandler.js and js/bulkTextureOperations.js of the    *)
(* on-demand generation: the asset lists are parsed without payloads, an   *)
(* asset's data URL is made from the JSON maps when it is first needed,    *)
(* and the texture operations of the modal write data URLs into the        *)
(* assets.  allGameAssets is kept in assetData, null is <<>>, and a data   *)
(* URL is its MIME type and its payload.                                   *)
(***************************************************************************)
\* how many texture operations are started in one run
MaxOperations == 1

\* the three buttons resetModalInputs enables
ModalButtons ==
    {"apply-adjustments-btn", "create-new-texture-btn", "apply-upload-btn"}

\* the lines of the asset lists: key, list type and file extension
OD_Lists ==
    <<[key |-> "f1", type |-> "image", fileExtension |-> "jpg"],
      [key |-> "f2", type |-> "image", fileExtension |-> "jpg"],
      [key |-> "f5", type |-> "image", fileExtension |-> "png"],
      [key |-> "f6", type |-> "image", fileExtension |-> "png"]>>

\* the payloads of the JSON maps; f2 does not decode and f6 has none
assetDataMaps == [f1 |-> 0, f2 |-> CorruptBase64, f5 |-> 1]

\* parseAssetList: the asset object of one line
ParseAssetLine(line) ==
    [fileExtension |-> line.fileExtension,
     assetType |-> line.type,
     mimeType |-> IF line.type = "image"
                  THEN IF line.fileExtension = "jpg" THEN "image/jpeg"
                       ELSE "image/png"
                  ELSE "audio/mpeg",
     dataUrl |-> <<>>,
     originalDataUrl |-> <<>>,
     isEdited |-> FALSE]

\* createDataURL(base64String, mimeType)
CreateDataURL(base64String, mimeType) ==
    [mime |-> mimeType, data |-> base64String]

\* whether an Image given the data URL fires onload (and not onerror)
ImageLoads(url) == url # <<>> /\ url[1].data \in Bytes

\* whether loadAssetDataOnDemand finds a payload for the asset
HasRawData(k) == Has(assetDataMaps, k)

\* loadAssetDataOnDemand(asset, assetDataMaps) for an asset with a payload:
\* an asset that has a data URL is left alone
LoadAssetDataOnDemand(ad, k) ==
    IF ad[k].dataUrl # <<>> THEN ad
    ELSE LET url == <<CreateDataURL(assetDataMaps[k], ad[k].mimeType)>>
         IN  [ad EXCEPT ![k].dataUrl = url, ![k].originalDataUrl = url]

\* updateAssetCardDisplay(fullPath, newDataUrl)
UpdateAssetCardDisplay(ad, k, newDataUrl) ==
    IF Has(ad, k)
    THEN [ad EXCEPT ![k].dataUrl = newDataUrl, ![k].isEdited = TRUE]
    ELSE ad

\* loadAssetDataOnDemand and then updateAssetCardDisplay for each asset in
\* turn, as the click handler of editSelectedBtn does
RECURSIVE OD_LoadEach(_, _)
OD_LoadEach(ad, ks) ==
    IF ks = <<>> THEN ad
    ELSE LET k == Head(ks)
             loaded == IF HasRawData(k) THEN LoadAssetDataOnDemand(ad, k)
                       ELSE ad
         IN  OD_LoadEach(loaded, Tail(ks))

RECURSIVE OD_DisplayEach(_, _)
OD_DisplayEach(ad, ks) ==
    IF ks = <<>> THEN ad
    ELSE OD_DisplayEach(
             UpdateAssetCardDisplay(ad, Head(ks), ad[Head(ks)].dataUrl),
             Tail(ks))

\* what no handler of this generation touches
OD_Unused ==
    <<editedAssets, sessVars, gridVars, allowedSelectionType, excludedAssets,
      isExcludeMode, pending, uploadedAudioBuffer, trimVars, frame>>

\* toggleSelectMode of js/main.js
OD_ToggleSelectMode ==
    /\ isSelectMode' = ~isSelectMode
    /\ IF isSelectMode'
       THEN UNCHANGED <<selectedAssets, lastClickedCard>>
       ELSE /\ selectedAssets' = <<>>
            /\ lastClickedCard' = "null"
    /\ lastEvent' = [op |-> "toggleSelectMode", on |-> isSelectMode']
    /\ UNCHANGED <<assetData, OD_Unused, dispatch, running, openModals,
                   uploadedImage, decoding, loadingOverlay, disabledButtons>>

\* toggleAssetSelection(asset, cardElement, isShiftKey), called by the
\* click listener of a card in select mode
ToggleAssetSelection(k, isShiftKey) ==
    LET lastSelectedIndex == IndexOfCard(lastClickedCard)
        currentAssetIndex == IndexOfCard(k)
        range == SubSeq(cards, Min(lastSelectedIndex, currentAssetIndex),
                        Max(lastSelectedIndex, currentAssetIndex))
    IN  /\ isSelectMode
        /\ k \in SeqRange(cards)
        /\ IF k \in SeqRange(selectedAssets)
           THEN /\ selectedAssets' = DeleteKey(selectedAssets, k)
                /\ UNCHANGED lastClickedCard
           ELSE /\ selectedAssets' =
                       IF isShiftKey /\ lastClickedCard # "null"
                       THEN AddKeys(selectedAssets, range)
                       ELSE Append(selectedAssets, k)
                /\ lastClickedCard' = k
        /\ lastEvent' = [op |-> "toggleAssetSelection", key |-> k]
        /\ UNCHANGED <<assetData, OD_Unused, isSelectMode, dispatch, running,
                       openModals, uploadedImage, decoding, loadingOverlay,
                       disabledButtons>>

\* the Load Data button of a card that was rendered without data
LoadButtonClick(k) ==
    /\ k \in SeqRange(cards)
    /\ assetData[k].dataUrl = <<>>
    /\ IF HasRawData(k)
       THEN LET loaded == LoadAssetDataOnDemand(assetData, k)
            IN  /\ assetData' =
                       UpdateAssetCardDisplay(loaded, k, loaded[k].dataUrl)
                /\ lastEvent' = [op |-> "loadButton", key |-> k,
                                 outcome |-> "loaded"]
       ELSE /\ UNCHANGED assetData
            /\ lastEvent' = [op |-> "loadButton", key |-> k,
                             outcome |-> "failed"]
    /\ UNCHANGED <<OD_Unused, selectedAssets, isSelectMode, lastClickedCard,
                   dispatch, running, openModals, uploadedImage, decoding,
                   loadingOverlay, disabledButtons>>

\* the click handler of editSelectedBtn: the selected assets without data
\* are loaded; when one of them has no payload the overlay stays and the
\* modal is not shown
EditSelectedClick ==
    LET assetsToLoad ==
            SelectSeq(selectedAssets,
                      LAMBDA k : Has(assetData, k) /\ assetData[k].dataUrl = <<>>)
        loaded == OD_LoadEach(assetData, assetsToLoad)
        failed == \E i \in 1..Len(assetsToLoad) : ~HasRawData(assetsToLoad[i])
    IN  /\ selectedAssets # <<>>
        /\ "bulk" \notin openModals
        /\ IF failed
           THEN /\ assetData' = loaded
                /\ loadingOverlay' = TRUE
                /\ UNCHANGED <<openModals, dispatch>>
                /\ lastEvent' = [op |-> "editSelected", outcome |-> "error",
                                 loaded |-> assetsToLoad]
           ELSE /\ assetData' = OD_DisplayEach(loaded, assetsToLoad)
                /\ loadingOverlay' = FALSE
                /\ openModals' = openModals \cup {"bulk"}
                /\ dispatch' = "transition"
                /\ lastEvent' = [op |-> "editSelected", outcome |-> "shown",
                                 loaded |-> assetsToLoad]
        /\ UNCHANGED <<OD_Unused, selectedAssets, isSelectMode,
                       lastClickedCard, running, uploadedImage, decoding,
                       disabledButtons>>

\* closeModalBtn, or a click on the overlay outside the modal
OD_CloseModal ==
    /\ "bulk" \in openModals
    /\ openModals' = openModals \ {"bulk"}
    /\ dispatch' = "idle"
    /\ lastEvent' = [op |-> "closeModal"]
    /\ UNCHANGED <<assetData, OD_Unused, selectedAssets, isSelectMode,
                   lastClickedCard, running, uploadedImage, decoding,
                   loadingOverlay, disabledButtons>>

\* the transitionend listener of the overlay: resetModalInputs once the
\* modal has become visible
ModalTransitionEnd ==
    /\ "bulk" \in openModals
    /\ dispatch = "transition"
    /\ dispatch' = "idle"
    /\ uploadedImage' = <<>>
    /\ disabledButtons' = disabledButtons \ ModalButtons
    /\ lastEvent' = [op |-> "resetModalInputs"]
    /\ UNCHANGED <<assetData, OD_Unused, selectedAssets, isSelectMode,
                   lastClickedCard, running, openModals, decoding,
                   loadingOverlay>>

\* the files of the upload field: the data URL readFileAsDataURL gives, or
\* a read error
OD_Files ==
    {[mime |-> "image/png", data |-> 0, readable |-> TRUE],
     [mime |-> "image/jpeg", data |-> 1, readable |-> TRUE],
     [mime |-> "image/jpeg", data |-> CorruptBase64, readable |-> TRUE],
     [mime |-> "image/png", data |-> 1, readable |-> FALSE]}

\* handleImageUploadChange up to its await; without a file the upload is
\* reset and the apply button disabled
HandleImageUploadChange(files) ==
    /\ "bulk" \in openModals
    /\ IF files = <<>>
       THEN /\ uploadedImage' = <<>>
            /\ disabledButtons' = disabledButtons \cup {"apply-upload-btn"}
            /\ UNCHANGED decoding
       ELSE /\ Cardinality(decoding) < MaxDecoding
            /\ decoding' = decoding \cup {files[1]}
            /\ UNCHANGED <<uploadedImage, disabledButtons>>
    /\ lastEvent' = [op |-> "handleImageUploadChange",
                     outcome |-> IF files = <<>> THEN "noFile" ELSE "reading"]
    /\ UNCHANGED <<assetData, OD_Unused, selectedAssets, isSelectMode,
                   lastClickedCard, dispatch, running, openModals,
                   loadingOverlay>>

\* readFileAsDataURL has settled
UploadRead(file) ==
    /\ file \in decoding
    /\ decoding' = decoding \ {file}
    /\ IF file.readable
       THEN /\ uploadedImage' = <<CreateDataURL(file.data, file.mime)>>
            /\ disabledButtons' = disabledButtons \ {"apply-upload-btn"}
       ELSE /\ uploadedImage' = <<>>
            /\ disabledButtons' = disabledButtons \cup {"apply-upload-btn"}
    /\ lastEvent' = [op |-> "uploadRead",
                     outcome |-> IF file.readable THEN "ok" ELSE "error"]
    /\ UNCHANGED <<assetData, OD_Unused, selectedAssets, isSelectMode,
                   lastClickedCard, dispatch, running, openModals,
                   loadingOverlay>>

\* getSelectedAssetObjects().filter(asset => asset.assetType === 'image')
SelectedImageAssets ==
    SelectSeq(selectedAssets,
              LAMBDA k : Has(assetData, k) /\ assetData[k].assetType = "image")

\* createColorTexture(color, width, height, 'image/png')
CreateColorTexture(color) == <<CreateDataURL(color, "image/png")>>

\* canvas.toDataURL(targetMimeType) of convertImageDataURL: the picture
\* drawn anew and encoded for the target type
ConvertedDataURL(url, targetMimeType) ==
    <<CreateDataURL((url[1].data + 1) % (MaxByte + 1), targetMimeType)>>

\* the button of an operation
ButtonOf(op) ==
    IF op = "handleCreateNewTexture" THEN "create-new-texture-btn"
    ELSE "apply-upload-btn"

\* the data URL an operation applies: the texture it made, or
\* uploadedFileDataURL as it is when the loop reads it
SourceUrl(o, upl) == IF o.op = "handleCreateNewTexture" THEN o.texture ELSE upl

\* the for loop of an operation from asset i on, up to the next await or to
\* the end: an asset of the source's MIME type is updated at once, for any
\* other the original image is loaded first.  Gives the assets and the
\* position and stage reached.
RECURSIVE RunLoop(_, _, _, _)
RunLoop(ad, o, i, upl) ==
    IF i > Len(o.assets) THEN [ad |-> ad, i |-> i, stage |-> "done"]
    ELSE IF ad[o.assets[i]].mimeType = o.sourceMime
    THEN RunLoop(UpdateAssetCardDisplay(ad, o.assets[i], SourceUrl(o, upl)),
                 o, i + 1, upl)
    ELSE [ad |-> ad, i |-> i, stage |-> "original"]

\* the state after the loop of operation n has run on to r: a finished
\* operation enables its button again, and handleApplyUploadedImage then
\* calls resetModalInputs
AfterLoop(n, o, r) ==
    /\ assetData' = r.ad
    /\ running' = [running EXCEPT ![n] = [o EXCEPT !.i = r.i,
                                                   !.stage = r.stage]]
    /\ IF r.stage # "done"
       THEN UNCHANGED <<disabledButtons, uploadedImage>>
       ELSE IF o.op = "handleCreateNewTexture"
       THEN /\ disabledButtons' = disabledButtons \ {ButtonOf(o.op)}
            /\ UNCHANGED uploadedImage
       ELSE /\ disabledButtons' = disabledButtons \ ModalButtons
            /\ uploadedImage' = <<>>

\* handleCreateNewTexture and handleApplyUploadedImage up to their first
\* await.  running keeps every operation that was started, finished or not.
StartOperation(op, color) ==
    LET o == [op |-> op, assets |-> SelectedImageAssets, i |-> 1,
              stage |-> "started",
              texture |-> CreateColorTexture(color),
              converting |-> <<>>,
              sourceMime |-> IF op = "handleCreateNewTexture"
                             THEN "image/png"
                             ELSE uploadedImage[1].mime]
        n == Len(running) + 1
        r == RunLoop(assetData, o, 1, uploadedImage)
    IN  /\ "bulk" \in openModals
        /\ ButtonOf(op) \notin disabledButtons
        /\ UNCHANGED <<OD_Unused, selectedAssets, isSelectMode,
                       lastClickedCard, dispatch, openModals, decoding,
                       loadingOverlay>>
        /\ IF op = "handleApplyUploadedImage" /\ uploadedImage = <<>>
           THEN /\ UNCHANGED <<assetData, running, disabledButtons,
                               uploadedImage>>
                /\ lastEvent' = [op |-> op, outcome |-> "noUpload"]
           ELSE IF Len(SelectedImageAssets) = 0
           THEN /\ UNCHANGED <<assetData, running, disabledButtons,
                               uploadedImage>>
                /\ lastEvent' = [op |-> op, outcome |-> "noSelection"]
           ELSE /\ Len(running) < MaxOperations
                /\ assetData' = r.ad
                /\ running' = Append(running, [o EXCEPT !.i = r.i,
                                                        !.stage = r.stage])
                /\ IF r.stage # "done"
                   THEN /\ disabledButtons' =
                               disabledButtons \cup {ButtonOf(op)}
                        /\ UNCHANGED uploadedImage
                   ELSE IF op = "handleCreateNewTexture"
                   THEN UNCHANGED <<disabledButtons, uploadedImage>>
                   ELSE /\ disabledButtons' = disabledButtons \ ModalButtons
                        /\ uploadedImage' = <<>>
                /\ lastEvent' = [op |-> op, outcome |-> "started", n |-> n,
                                 stage |-> r.stage]

\* the load of originalImage reports: onload resolves the promise the loop
\* waits for, and convertImageDataURL is called with the source as it is
\* then; onerror has no listener, and the promise stays pending
OriginalImageSettled(n) ==
    LET o == running[n]
        k == o.assets[o.i]
        loads == ImageLoads(assetData[k].originalDataUrl)
    IN  /\ n \in 1..Len(running)
        /\ o.stage = "original"
        /\ running' = [running EXCEPT
                           ![n].stage = IF loads THEN "convert"
                                        ELSE "noListener",
                           ![n].converting =
                               IF loads THEN SourceUrl(o, uploadedImage)
                               ELSE <<>>]
        /\ lastEvent' = [op |-> "originalImage", n |-> n, key |-> k,
                         outcome |-> IF loads THEN "load" ELSE "error"]
        /\ UNCHANGED <<assetData, OD_Unused, selectedAssets, isSelectMode,
                       lastClickedCard, dispatch, openModals, uploadedImage,
                       decoding, loadingOverlay, disabledButtons>>

\* convertImageDataURL settles: resolved, the asset is updated and the loop
\* goes on; rejected, handleApplyUploadedImage goes on with the next asset
\* and handleCreateNewTexture leaves its loop
ConvertSettled(n) ==
    LET o == running[n]
        k == o.assets[o.i]
        source == o.converting
        resolved == ImageLoads(source)
        updated == UpdateAssetCardDisplay(
                       assetData, k,
                       ConvertedDataURL(source, assetData[k].mimeType))
        r == IF resolved THEN RunLoop(updated, o, o.i + 1, uploadedImage)
             ELSE IF o.op = "handleCreateNewTexture"
             THEN [ad |-> assetData, i |-> o.i, stage |-> "done"]
             ELSE RunLoop(assetData, o, o.i + 1, uploadedImage)
    IN  /\ n \in 1..Len(running)
        /\ o.stage = "convert"
        /\ AfterLoop(n, o, r)
        /\ lastEvent' = [op |-> "convertImageDataURL", n |-> n, key |-> k,
                         outcome |-> IF resolved THEN "resolved"
                                     ELSE "rejected",
                         stage |-> r.stage]
        /\ UNCHANGED <<OD_Unused, selectedAssets, isSelectMode,
                       lastClickedCard, dispatch, openModals, decoding,
                       loadingOverlay>>

(***************************************************************************)
(* SpecOnDemand: selection, on-demand loading and the modal.               *)
(* SpecOnDemandOps: the same over the assets f2 and f5, with the upload    *)
(* field and the two texture operations of the modal; SpecOnDemandFair     *)
(* adds that every image load reports its outcome sooner or later.         *)
(***************************************************************************)
\* the page once the lists are parsed and the cards rendered
OD_Init(lists) ==
    /\ assetData = [k \in {lists[i].key : i \in 1..Len(lists)} |->
                       ParseAssetLine(
                           lists[CHOOSE i \in 1..Len(lists) :
                                     lists[i].key = k])]
    /\ editedAssets = EmptyMap
    /\ exportedDoc = NoDoc
    /\ atExport = EmptyMap
    /\ lastEvent = [op |-> "load", outcome |-> "ok"]
    /\ cards = [i \in 1..Len(lists) |-> lists[i].key]
    /\ hiddenCards = {}
    /\ InitSelection
    /\ InitTracker
    /\ InitBulkOperations
    /\ frame = NoFrame

InitOnDemand == OD_Init(OD_Lists)

InitOnDemandOps == OD_Init(SubSeq(OD_Lists, 2, 3))

OD_Click == \E k \in SeqRange(cards), isShiftKey \in BOOLEAN :
                ToggleAssetSelection(k, isShiftKey)

OD_LoadButton == \E k \in SeqRange(cards) : LoadButtonClick(k)

OD_UploadChange ==
    \E files \in {<<>>} \cup {<<f>> : f \in OD_Files} :
        HandleImageUploadChange(files)

OD_UploadRead == \E file \in decoding : UploadRead(file)

OD_Start ==
    \E op \in {"handleCreateNewTexture", "handleApplyUploadedImage"} :
        StartOperation(op, 0)

OD_ImageSettled ==
    \E n \in 1..Len(running) : OriginalImageSettled(n) \/ ConvertSettled(n)

NextOnDemand ==
    \/ OD_ToggleSelectMode
    \/ OD_Click
    \/ OD_LoadButton
    \/ EditSelectedClick
    \/ OD_CloseModal
    \/ ModalTransitionEnd

SpecOnDemand == InitOnDemand /\ [][NextOnDemand]_vars

NextOnDemandOps ==
    \/ NextOnDemand
    \/ OD_UploadChange
    \/ OD_UploadRead
    \/ OD_Start
    \/ OD_ImageSettled

SpecOnDemandOps == InitOnDemandOps /\ [][NextOnDemandOps]_vars

SpecOnDemandFair == SpecOnDemandOps /\ WF_vars(OD_ImageSettled)

\* C1: after a call of updateAssetInMemory on an existing asset, whatever
\* calls, imports and exports came before and whatever bytes, type and
\* exclusion override it was given, the asset's isEdited flag equals
\* (currentBase64 # originalBase64 \/ type # originalType \/ isExcluded).
C1_IsEditedFormula ==
    (lastEvent.op = "update" /\ lastEvent.outcome = "ok") =>
        LET rec == assetData[lastEvent.key]
        IN  rec.isEdited = (\/ rec.currentBase64 # rec.originalBase64
                            \/ rec.type # rec.originalType
                            \/ rec.isExcluded = TRUE)

\* C1 witness: an update left an asset with its original bytes and type and
\* edited only because it is excluded
C1_Witness ==
    /\ lastEvent.op = "update" /\ lastEvent.outcome = "ok"
    /\ LET rec == assetData[lastEvent.key]
       IN  /\ rec.currentBase64 = rec.originalBase64
           /\ rec.type = rec.originalType
           /\ rec.isExcluded
           /\ rec.isEdited

\* C5: no step (update, export, import with its reset pass) changes any
\* asset's originalBase64 or originalType.
C5_OriginalsFrozen ==
    [][\A k \in DOMAIN assetData :
          /\ assetData'[k].originalBase64 = assetData[k].originalBase64
          /\ assetData'[k].originalType = assetData[k].originalType]_vars

\* C5 witness: an import has reset the registry and written new bytes for an
\* asset, whose original bytes and type are still those of the manifest
C5_Witness ==
    /\ lastEvent.op = "import" /\ lastEvent.outcome = "ok"
    /\ \E k \in DOMAIN assetData :
          /\ Has(lastEvent.doc, k)
          /\ assetData[k].currentBase64 # assetData[k].originalBase64
          /\ assetData[k].originalBase64 = RegManifest[k].base64
          /\ assetData[k].originalType = RegManifest[k].type

\* C9: when the document written by exportChanges is imported again, into a
\* registry in whatever state, every asset that was edited at export time
\* has the currentBase64, type and isExcluded it had at export time, and
\* every asset that was unedited at export time is at its original bytes with
\* isEdited and isExcluded false.
C9_SessionRoundTrip ==
    (/\ lastEvent.op = "import" /\ lastEvent.outcome = "ok"
     /\ exportedDoc.present
     /\ lastEvent.doc = exportedDoc.doc) =>
        \A k \in DOMAIN assetData :
            /\ atExport[k].isEdited =>
                  /\ assetData[k].currentBase64 = atExport[k].currentBase64
                  /\ assetData[k].type = atExport[k].type
                  /\ assetData[k].isExcluded = atExport[k].isExcluded
            /\ ~atExport[k].isEdited =>
                  /\ assetData[k].currentBase64 = assetData[k].originalBase64
                  /\ ~assetData[k].isEdited
                  /\ ~assetData[k].isExcluded

\* C9 witness: the exported document was imported; it restored changed bytes
\* of one asset and the exclusion of an asset, and left an unedited asset at
\* its original
C9_Witness ==
    /\ lastEvent.op = "import" /\ lastEvent.outcome = "ok"
    /\ exportedDoc.present
    /\ lastEvent.doc = exportedDoc.doc
    /\ \E k \in DOMAIN exportedDoc.doc :
          /\ assetData[k].currentBase64 # assetData[k].originalBase64
          /\ assetData[k].isExcluded
    /\ \E k \in DOMAIN assetData :
          /\ ~atExport[k].isEdited
          /\ assetData[k].currentBase64 = assetData[k].originalBase64

\* C3: in every reachable state of the select-only tracker, all keys of
\* selectedAssets are of one kind family (image = jpg/png, or mp3) and that
\* family is allowedSelectionType, after any sequence of single clicks,
\* shift-click ranges and select-all-displayed.
C3_SelectionHomogeneous ==
    selectedAssets # <<>> =>
        /\ allowedSelectionType \in {"image", "mp3"}
        /\ \A k \in SeqRange(selectedAssets) :
               GroupType(assetData[k].type) = allowedSelectionType

\* C3 witness: a shift-click range ran over cards of both families (from an
\* mp3 card to the first image card) and took only the image cards.
C3_Witness ==
    /\ lastEvent.op = "click"
    /\ lastEvent.shift
    /\ lastEvent.outcome = "ok"
    /\ lastEvent.key = "f1"
    /\ lastEvent.anchor = "f3"
    /\ hiddenCards = {}
    /\ selectedAssets = <<"f1", "f2">>
    /\ allowedSelectionType = "image"

\* C4: from an empty selection in select mode a click on an image asset A
\* selects it; a click on an mp3 asset while images are selected is rejected
\* and leaves selectedAssets, allowedSelectionType and the shift-click anchor
\* lastClickedCard unchanged.
C4_KindMismatchRejected ==
    [][ lastEvent'.op = "click" /\ isSelectMode =>
          /\ ( /\ selectedAssets = <<>>
               /\ ~lastEvent'.shift
               /\ GroupType(assetData[lastEvent'.key].type) = "image" )
              => /\ selectedAssets' = <<lastEvent'.key>>
                 /\ allowedSelectionType' = "image"
          /\ ( /\ selectedAssets # <<>>
               /\ allowedSelectionType = "image"
               /\ GroupType(assetData[lastEvent'.key].type) = "mp3" )
              => /\ lastEvent'.outcome = "mismatch"
                 /\ selectedAssets' = selectedAssets
                 /\ allowedSelectionType' = allowedSelectionType
                 /\ lastClickedCard' = lastClickedCard ]_vars

\* C4 witness: with exactly the image asset f1 selected by a click, a click
\* on an mp3 asset was rejected.
C4_Witness ==
    /\ lastEvent.op = "click"
    /\ lastEvent.outcome = "mismatch"
    /\ lastEvent.key \in {"f3", "f4"}
    /\ selectedAssets = <<"f1">>
    /\ allowedSelectionType = "image"
    /\ lastClickedCard = "f1"

\* C2: in the select/exclude tracker, in every reachable state and for every
\* interleaving of card clicks, shift-click ranges, select-all, mode toggles
\* and their deferred callbacks, no asset key is in both selectedAssets and
\* excludedAssets.
C2_SelectedExcludedDisjoint ==
    SeqRange(selectedAssets) \cap SeqRange(excludedAssets) = {}

\* C2 witness: a shift-click range in select mode ran while an exclusion
\* was still waiting for its deferred clearAllExclusions; both sets hold a
\* key of the same family.
C2_Witness ==
    /\ lastEvent.op = "click"
    /\ lastEvent.outcome = "ok"
    /\ isSelectMode
    /\ selectedAssets = <<"f2">>
    /\ excludedAssets = <<"f1">>

\* C6: while a bulk operation (applyColorChange or applyUploadedAudio) is
\* running, an attempt to start another one is rejected: it starts nothing
\* and updates nothing in the registry.
C6_SingleFlight ==
    [][ running # <<>>
        /\ lastEvent'.op \in {"applyColorChange", "applyUploadedAudio"}
        => /\ lastEvent'.outcome # "started"
           /\ running' = running
           /\ assetData' = assetData
           /\ editedAssets' = editedAssets ]_vars

\* C6 witness: two bulk operations are in flight at the same time.
C6_Witness ==
    /\ Len(running) = 2
    /\ lastEvent.op = "applyColorChange"
    /\ lastEvent.outcome = "started"

\* C7: when a colour-change batch ends, every selected image asset whose
\* payload decodes has been updated, also those that come after an asset
\* whose decode failed.
C7_BatchContinuesAfterFailure ==
    lastEvent.op = "colorEnd" =>
        \A i \in 1..Len(lastEvent.selected) :
            LET asset == lastEvent.selected[i]
            IN  IsImageType(asset.type) /\ Decodable(asset.base64Data)
                    => asset.key \in lastEvent.updated

\* C7 witness: a batch over three images ended at the failed decode of the
\* second one, after it had updated the first.
C7_Witness ==
    /\ lastEvent.op = "colorEnd"
    /\ lastEvent.outcome = "error"
    /\ Len(lastEvent.selected) = 3
    /\ lastEvent.updated = {"f1"}

\* the selected image assets of a finished batch whose bytes do not decode
AdjustUndecodable(selected) ==
    {selected[i].key : i \in {j \in 1..Len(selected) :
        /\ IsImageType(selected[j].type)
        /\ ~Decodable(selected[j].base64Data)}}

\* C8: when applyImageAdjustments has run over a selection holding exactly
\* one asset whose bytes cannot be decoded, every other selected image has
\* been updated and the final report carries a success count and a list of
\* failures that names exactly that asset.
C8_ReportNamesFailedAsset ==
    (/\ lastEvent.op = "adjustEnd"
     /\ Cardinality(AdjustUndecodable(lastEvent.selected)) = 1)
    => /\ \A i \in 1..Len(lastEvent.selected) :
              LET asset == lastEvent.selected[i]
              IN  IsImageType(asset.type) /\ Decodable(asset.base64Data)
                      => asset.key \in lastEvent.updated
       /\ "successCount" \in DOMAIN lastEvent.alert
       /\ "failures" \in DOMAIN lastEvent.alert
       /\ lastEvent.alert.successCount = Cardinality(lastEvent.updated)
       /\ lastEvent.alert.failures = AdjustUndecodable(lastEvent.selected)

\* a batch over f1 and the undecodable f2 has ended: f1 was updated, f2 was
\* named on the console only, and the alert is the fixed message
C8_Witness ==
    /\ lastEvent.op = "adjustEnd"
    /\ AdjustUndecodable(lastEvent.selected) = {"f2"}
    /\ lastEvent.updated = {"f1"}
    /\ lastEvent.logged = {"f2"}
    /\ DOMAIN lastEvent.alert = {"message"}
    /\ assetData["f1"].isEdited
    /\ ~assetData["f2"].isEdited

\* C10: after a successful importChanges, every asset whose key is not in
\* the imported document is back in its loaded state: current bytes equal
\* to the original bytes, the loaded type, not edited, and no editedAssets
\* entry (the records of this generation have no isExcluded field).
C10_ImportResetsAbsent ==
    (lastEvent.op = "import" /\ lastEvent.outcome = "ok")
    => \A k \in DOMAIN assetData \ DOMAIN lastEvent.doc :
           /\ assetData[k].currentBase64 = assetData[k].originalBase64
           /\ assetData[k].type = FileTypeOfKey[k]
           /\ ~assetData[k].isEdited
           /\ ~Has(editedAssets, k)

\* an import of a document without f1 has succeeded while f1 was edited: its
\* editedAssets entry is gone and the record still holds the edit
C10_Witness ==
    /\ lastEvent.op = "import"
    /\ lastEvent.outcome = "ok"
    /\ ~Has(lastEvent.doc, "f1")
    /\ ~Has(editedAssets, "f1")
    /\ assetData["f1"].isEdited
    /\ assetData["f1"].currentBase64 # assetData["f1"].originalBase64

\* C11: when an imported document holds an entry whose key is not in the
\* registry, the import succeeds, creates no record and no editedAssets
\* entry for that key, and applies every entry whose key is in the registry.
C11_UnknownKeySkipped ==
    (/\ lastEvent.op = "import"
     /\ lastEvent.outcome = "ok"
     /\ DOMAIN lastEvent.doc \ DOMAIN RegManifest # {})
    => /\ DOMAIN assetData = DOMAIN RegManifest
       /\ DOMAIN editedAssets = DOMAIN lastEvent.doc \cap DOMAIN RegManifest
       /\ \A k \in DOMAIN lastEvent.doc \cap DOMAIN RegManifest :
              /\ assetData[k].currentBase64 = lastEvent.doc[k].base64Data
              /\ assetData[k].type = lastEvent.doc[k].type
              /\ assetData[k].isEdited
              /\ assetData[k].isExcluded = ImportedIsExcluded(lastEvent.doc[k])
              /\ editedAssets[k].base64Data = lastEvent.doc[k].base64Data
              /\ editedAssets[k].type = lastEvent.doc[k].type

\* the document with entries for f3 and the unknown f9 has been imported:
\* f3 carries the imported exclusion and f9 has no record
C11_Witness ==
    /\ lastEvent.op = "import"
    /\ lastEvent.outcome = "ok"
    /\ Has(lastEvent.doc, UnknownKey)
    /\ Has(lastEvent.doc, "f3")
    /\ ~Has(assetData, UnknownKey)
    /\ ~Has(editedAssets, UnknownKey)
    /\ assetData["f3"].isExcluded
    /\ Has(editedAssets, "f3")

\* the keys whose record is flagged as edited
EditedKeys == {k \in DOMAIN assetData : assetData[k].isEdited}

\* C12: the document written by exportChanges has an entry for exactly the
\* keys whose isEdited flag is true at export time, and each entry carries the
\* asset's current bytes, current type and isExcluded flag; when no document
\* is written, no key is flagged as edited.
C12_ExportExactlyEdited ==
    lastEvent.op = "export" =>
        IF lastEvent.outcome = "ok"
        THEN /\ DOMAIN exportedDoc.doc = EditedKeys
             /\ \A k \in EditedKeys :
                    /\ exportedDoc.doc[k].base64Data = assetData[k].currentBase64
                    /\ exportedDoc.doc[k].type = assetData[k].type
                    /\ exportedDoc.doc[k].isExcluded = assetData[k].isExcluded
        ELSE EditedKeys = {}

\* a document has been written while f1, flagged as edited by an import of
\* its own loaded bytes and type, has no entry in it
C12_Witness ==
    /\ lastEvent.op = "export"
    /\ lastEvent.outcome = "ok"
    /\ assetData["f1"].isEdited
    /\ assetData["f1"].currentBase64 = assetData["f1"].originalBase64
    /\ assetData["f1"].type = assetData["f1"].originalType
    /\ ~assetData["f1"].isExcluded
    /\ ~Has(exportedDoc.doc, "f1")
    /\ Has(exportedDoc.doc, "f3")

\* the asset entries of the archive just built
ZipAssetEntries ==
    {e \in lastEvent.entries : Len(e) = 6 /\ e[2] = "files" /\ e[3] = "assets"}

\* C13 as stated: the archive has no entry for an excluded asset and exactly
\* one entry, at <root>files/assets/<folderNumber>/1/<fileName>, for every
\* asset that is not excluded and whose data is a non-empty string.
C13_ArchiveOmitsExactlyExcluded ==
    (lastEvent.op = "zip" /\ lastEvent.outcome = "ok")
    => /\ ZipAssetEntries =
              {ZipPath(lastEvent.rootFolder, k) :
                  k \in {x \in DOMAIN assetData :
                            /\ ~assetData[x].isExcluded
                            /\ IsNonEmptyString(assetData[x].currentBase64)}}
       /\ Cardinality(ZipAssetEntries) =
              Cardinality({x \in DOMAIN assetData :
                              /\ ~assetData[x].isExcluded
                              /\ IsNonEmptyString(assetData[x].currentBase64)})

\* C13 amended: the archive has no entry for an excluded asset and exactly
\* one entry, at <root>files/assets/<folderNumber>/1/<fileName>, for every
\* asset that is not excluded and whose data is a non-empty string that
\* base64ToBlob can decode.
C13_ArchiveOmitsExcludedAndUndecodable ==
    (lastEvent.op = "zip" /\ lastEvent.outcome = "ok")
    => /\ ZipAssetEntries =
              {ZipPath(lastEvent.rootFolder, k) :
                  k \in {x \in DOMAIN assetData :
                            /\ ~assetData[x].isExcluded
                            /\ IsNonEmptyString(assetData[x].currentBase64)
                            /\ Base64ToBlob(assetData[x].currentBase64)}}
       /\ Cardinality(ZipAssetEntries) =
              Cardinality({x \in DOMAIN assetData :
                              /\ ~assetData[x].isExcluded
                              /\ IsNonEmptyString(assetData[x].currentBase64)
                              /\ Base64ToBlob(assetData[x].currentBase64)})

\* an archive has been built while f3 was excluded, f2 had been given
\* decodable bytes and f1 was edited: f1 and f2 are in it, f3 is not
C13_Witness ==
    /\ lastEvent.op = "zip"
    /\ lastEvent.outcome = "ok"
    /\ assetData["f3"].isExcluded
    /\ assetData["f1"].isEdited
    /\ ~assetData["f1"].isExcluded
    /\ ZipAssetEntries = {ZipPath(lastEvent.rootFolder, "f1"),
                          ZipPath(lastEvent.rootFolder, "f2")}

C15_OffMeansEmpty ==
    ~isSelectMode => selectedAssets = <<>> /\ allowedSelectionType = "null"

\* select mode has just been left with two assets selected
C15_Witness ==
    /\ lastEvent.op = "toggleSelectMode"
    /\ lastEvent.cleared = 2
    /\ ~isSelectMode
    /\ selectedAssets = <<>>
    /\ allowedSelectionType = "null"

\* a bulk operation has just run to its end without an error
BulkCompleted ==
    /\ lastEvent.op \in {"colorEnd", "audioEnd"}
    /\ lastEvent.outcome = "completed"

\* C16 as stated: after applyColorChange or applyUploadedAudio has completed,
\* the selection is empty and allowedSelectionType is null.
C16_CompletionResetsKind ==
    BulkCompleted => selectedAssets = <<>> /\ allowedSelectionType = "null"

\* C16 amended: after applyColorChange or applyUploadedAudio has completed,
\* the selection is empty, and allowedSelectionType is null unless
\* excludedAssets is not empty at that moment.
C16_CompletionClearsSelection ==
    BulkCompleted =>
        /\ selectedAssets = <<>>
        /\ lastClickedCard = "null"
        /\ excludedAssets = <<>> => allowedSelectionType = "null"

\* a colour change over f1 has completed and left nothing selected and no
\* allowed type
C16_Witness ==
    /\ BulkCompleted
    /\ lastEvent.updated = {"f1"}
    /\ assetData["f1"].isEdited
    /\ selectedAssets = <<>>
    /\ excludedAssets = <<>>
    /\ allowedSelectionType = "null"

\* C17: in the select/exclude tracker, once no deferred callback is pending
\* (and no mode button is half-way through its listeners),
\* allowedSelectionType is null exactly when selectedAssets and
\* excludedAssets are both empty.
C17_AllowedTypeNullIffEmpty ==
    (pending = <<>> /\ dispatch = "idle")
    => ((allowedSelectionType = "null")
            <=> (selectedAssets = <<>> /\ excludedAssets = <<>>))

\* a regular click in select mode has set the allowed type and then thrown
\* before anything was selected
C17_Witness ==
    /\ pending = <<>>
    /\ dispatch = "idle"
    /\ isSelectMode
    /\ lastEvent.op = "click"
    /\ lastEvent.outcome = "threw"
    /\ selectedAssets = <<>>
    /\ excludedAssets = <<>>
    /\ allowedSelectionType = "image"

\* position of a key in the snapshot of a batch
TexIndex(selected, k) ==
    CHOOSE i \in 1..Len(selected) : selected[i].key = k

\* the keys were stored in the order of the snapshot
InSelectionOrder(selected, order) ==
    \A a, b \in 1..Len(order) :
        a < b => TexIndex(selected, order[a]) < TexIndex(selected, order[b])

\* C18: within one applyTextureAdjustments batch the assets are processed
\* one at a time in selection order: at most one image is in progress at any
\* moment, and the registry updates are made in the order of the selection.
C18_SequentialInSelectionOrder ==
    /\ \A n \in 1..Len(running) :
           running[n].kind = "texture" =>
               /\ Cardinality(running[n].loading \cup running[n].encoding) <= 1
               /\ InSelectionOrder(running[n].selected, running[n].order)
    /\ lastEvent.op = "textureEnd" =>
           InSelectionOrder(lastEvent.selected, lastEvent.order)

\* a batch over f1 then f5 has ended after storing f5 before f1
C18_Witness ==
    /\ lastEvent.op = "textureEnd"
    /\ Len(lastEvent.selected) = 2
    /\ lastEvent.selected[1].key = "f1"
    /\ lastEvent.order = <<"f5", "f1">>

\* C19: every asset's current type is one of jpg, png, mp3; an asset loaded
\* as mp3 has current type mp3 and an asset loaded as jpg or png has current
\* type jpg or png, whatever bulk operations and session imports were made.
C19_TypeStaysInFamily ==
    \A k \in DOMAIN assetData :
        /\ assetData[k].type \in {"jpg", "png", "mp3"}
        /\ FileTypeOfKey[k] = "mp3" => assetData[k].type = "mp3"
        /\ FileTypeOfKey[k] \in {"jpg", "png"}
               => assetData[k].type \in {"jpg", "png"}

\* a JPEG has been uploaded and applied to the selected f1, whose type is
\* now the subtype of the file's MIME type
C19_Witness ==
    /\ lastEvent.op = "applyUploadedImage"
    /\ lastEvent.outcome = "applied"
    /\ assetData["f1"].type = "jpeg"
    /\ editedAssets["f1"].type = "jpeg"

\* C20: a call of updateAssetInMemory with a key that is not in the registry
\* changes nothing: assetData and editedAssets are the same after the call
\* as before it, and neither holds a record for the key.
C20_UnknownKeyNoMutation ==
    [][ (lastEvent'.op = "update" /\ lastEvent'.outcome = "notFound")
            => /\ assetData' = assetData
               /\ editedAssets' = editedAssets
               /\ ~Has(assetData', lastEvent'.key)
               /\ ~Has(editedAssets', lastEvent'.key)
      ]_vars

\* updateAssetInMemory has been called with the unknown key on a registry
\* that already carries an edit
C20_Witness ==
    /\ lastEvent.op = "update"
    /\ lastEvent.outcome = "notFound"
    /\ lastEvent.key = UnknownKey
    /\ editedAssets # EmptyMap
    /\ \E k \in DOMAIN assetData : assetData[k].isEdited
    /\ ~Has(assetData, UnknownKey)
    /\ ~Has(editedAssets, UnknownKey)

\* C21: during the manifest load a key that already has a record keeps it:
\* no step of the loader replaces the originalBase64 or the type of an
\* existing record, also when the key is listed twice in one list or in two
\* of the jpg, png and mp3 lists.
C21_DuplicateKeyKeepsRecord ==
    [][ lastEvent'.op = "loadLine"
            => \A k \in DOMAIN assetData :
                   /\ assetData'[k].originalBase64 = assetData[k].originalBase64
                   /\ assetData'[k].type = assetData[k].type
      ]_vars

\* the loader has processed a line whose key had a record already, and the
\* record now carries the type of the later list
C21_Witness ==
    /\ lastEvent.op = "loadLine"
    /\ lastEvent.outcome = "replaced"
    /\ lastEvent.type = "png"
    /\ assetData[lastEvent.key].type = "png"
    /\ assetData[lastEvent.key].originalBase64 = 1
    /\ Len(SelectSeq(cards, LAMBDA c : c = lastEvent.key)) = 2

\* C22: when applyUploadedAudio trims with the sliders at 0 and at the full
\* duration, the trimmed buffer has the sample count of the upload; and
\* whenever endSample <= startSample (start equal to end included) it fails
\* instead of producing a buffer.
C22_TrimFullKeepsAllSamples ==
    (/\ lastEvent.op = "applyUploadedAudio"
     /\ lastEvent.outcome \in {"started", "error"})
    => /\ (trimStartSlider.value = 0
           /\ trimEndSlider.value = trimEndSlider.max)
              => /\ lastEvent.outcome = "started"
                 /\ lastEvent.length = uploadedAudioBuffer[1].length
       /\ EndSample <= StartSample => lastEvent.outcome = "error"

\* the four-sample upload is applied with the sliders left at 0 and at the
\* full duration, and the buffer handed to the encoder has three samples
C22_Witness ==
    /\ lastEvent.op = "applyUploadedAudio"
    /\ lastEvent.outcome = "started"
    /\ trimStartSlider.value = 0
    /\ trimEndSlider.value = trimEndSlider.max
    /\ uploadedAudioBuffer[1].length = 4
    /\ lastEvent.length = 3

\* C28: after any sequence of input events on the two trim sliders, after
\* a new audio upload and after the audio modal is closed, the value of the
\* start slider is at most the value of the end slider.
C28_StartAtMostEnd ==
    trimStartSlider.value <= trimEndSlider.value

\* the start slider has been dragged above the end slider, and the handler
\* has pulled the end slider up to it
C28_Witness ==
    /\ lastEvent.op = "handleTrimSliderInput"
    /\ lastEvent.target = "trim-start-slider"
    /\ lastEvent.clamped
    /\ trimStartSlider.value = 1
    /\ trimEndSlider.value = 1
    /\ trimEndSlider.max = 2

\* C30: when applyUploadedAudio fails in trimming (empty or negative range)
\* or in the MP3 encoding (channel layout, encoder error), the step that
\* reports the failure modifies no asset, leaves the selection as it was
\* and leaves the loading overlay hidden.
C30_AudioFailureChangesNothing ==
    [][ (/\ lastEvent'.op \in {"applyUploadedAudio", "audioEnd"}
         /\ lastEvent'.outcome = "error")
            => /\ assetData' = assetData
               /\ editedAssets' = editedAssets
               /\ selectedAssets' = selectedAssets
               /\ ~loadingOverlay'
      ]_vars

\* the encoder has rejected the upload that was being applied to a selected
\* audio asset: the asset is unedited, the selection stands, the overlay is
\* hidden
C30_Witness ==
    /\ lastEvent.op = "audioEnd"
    /\ lastEvent.outcome = "error"
    /\ "f3" \in SeqRange(selectedAssets)
    /\ ~assetData["f3"].isEdited
    /\ editedAssets = EmptyMap
    /\ ~loadingOverlay
    /\ "mp3" \in openModals

\* the encodeBuffer calls among the calls made on the encoder
EncodeCalls ==
    SelectSeq(frame.mp3encoder, LAMBDA c : c.method = "encodeBuffer")

\* C23: a conversion that resolves has handed every sample of each channel
\* to the encoder exactly once and in order: the chunks are consecutive,
\* start at sample 0, end at the last sample, hold between 1 and 1152
\* samples with only the last one shorter, span the same indices for left
\* and right in stereo, and flush is called once, after the last chunk.
C23_BlocksCoverSamplesOnce ==
    (frame.fn = "convertAudioBufferToMp3" /\ frame.settled = "resolved")
    => LET calls == frame.mp3encoder
           n     == Len(EncodeCalls)
       IN  /\ Len(calls) = n + 1
           /\ calls[n + 1].method = "flush"
           /\ \A b \in 1..n :
                  /\ calls[b].method = "encodeBuffer"
                  /\ calls[b].left[1] = IF b = 1 THEN 0
                                        ELSE calls[b - 1].left[2]
                  /\ calls[b].left[2] - calls[b].left[1] \in 1..1152
                  /\ b < n => calls[b].left[2] - calls[b].left[1] = 1152
                  /\ calls[b].right = IF frame.numberOfChannels = 2
                                      THEN calls[b].left ELSE <<>>
           /\ IF n = 0 THEN frame.length = 0
              ELSE calls[n].left[2] = frame.length

\* a stereo buffer of two full blocks and one sample has been converted:
\* three chunks, the last of one sample, then the flush
C23_Witness ==
    /\ frame.fn = "convertAudioBufferToMp3"
    /\ frame.settled = "resolved"
    /\ frame.numberOfChannels = 2
    /\ frame.length = 2 * sampleBlockSize + 1
    /\ Len(frame.mp3encoder) = 4
    /\ frame.mp3encoder[3].right = <<2 * sampleBlockSize,
                                     2 * sampleBlockSize + 1>>

\* C24: when the pixel loop of applyColorChange is done, every R, G and B
\* byte lies in 0..255, every alpha byte is the one the image had, at
\* strength 0 the array equals the image, and at strength 1 every pixel has
\* exactly the red, green and blue of the target colour.
C24_BlendBoundaries ==
    (frame.fn = "applyColorChange" /\ frame.j >= Len(frame.data))
    => /\ \A n \in 1..Len(frame.data) : frame.data[n] \in 0..255
       /\ \A n \in 1..Len(frame.data) :
              n % 4 = 0 => frame.data[n] = frame.source[n]
       /\ frame.strengthPercent = 0 => frame.data = frame.source
       /\ frame.strengthPercent = 100 =>
              \A n \in 1..Len(frame.data) :
                  /\ n % 4 = 1 => frame.data[n]
                                     = ParseHexPair(frame.targetColor, 1)
                  /\ n % 4 = 2 => frame.data[n]
                                     = ParseHexPair(frame.targetColor, 3)
                  /\ n % 4 = 3 => frame.data[n]
                                     = ParseHexPair(frame.targetColor, 5)

\* two pixels have been blended at full strength towards #FF0078: both are
\* now (255, 0, 120) with the alpha bytes 128 and 77 they had
C24_Witness ==
    /\ frame.fn = "applyColorChange"
    /\ frame.j = 8
    /\ frame.strengthPercent = 100
    /\ frame.source = <<10, 127, 200, 128, 1, 254, 128, 77>>
    /\ frame.data = <<255, 0, 120, 128, 255, 0, 120, 77>>

\* the records a step has changed
ChangedKeys ==
    {k \in DOMAIN assetData : assetData'[k] # assetData[k]}

\* a step of the bulk colour change that follows a decoded image
ColorStep == lastEvent'.op \in {"colorStep", "colorEnd"}

\* the keys that were selected when one of the running colour changes was
\* started
SelectedAtStart ==
    UNION {SeqRange(running[n].selection) :
              n \in {m \in 1..Len(running) : running[m].kind = "color"}}

\* C25 as stated: a step of the bulk colour change changes only records
\* whose keys were in the selection when the operation started, and every
\* record it changes ends with isEdited true.
C25_TransformedIsEdited ==
    [][ ColorStep => /\ ChangedKeys \subseteq SelectedAtStart
                     /\ \A k \in ChangedKeys : assetData'[k].isEdited
      ]_vars

\* C25: a step of the bulk colour change changes only records whose keys
\* were in the selection when the operation started (an unselected asset
\* keeps its currentBase64, type, isEdited and isExcluded), and every
\* record it changes ends with isEdited true unless its new bytes and type
\* are the original ones and it is not excluded.
C25_OnlySelectionModified ==
    [][ ColorStep => /\ ChangedKeys \subseteq SelectedAtStart
                     /\ \A k \in ChangedKeys :
                            \/ assetData'[k].isEdited
                            \/ /\ assetData'[k].currentBase64
                                      = assetData'[k].originalBase64
                               /\ assetData'[k].type
                                      = assetData'[k].originalType
                               /\ ~assetData'[k].isExcluded
      ]_vars

\* a colour change over the selected f1 has completed: f1 is edited, the
\* unselected image f5 and the unselected audio asset f3 are as they were
\* loaded
C25_Witness ==
    /\ lastEvent.op = "colorEnd"
    /\ lastEvent.outcome = "completed"
    /\ lastEvent.updated = {"f1"}
    /\ assetData["f1"].isEdited
    /\ assetData["f1"].currentBase64 # assetData["f1"].originalBase64
    /\ \A k \in {"f3", "f5"} :
           /\ ~assetData[k].isEdited
           /\ assetData[k].currentBase64 = assetData[k].originalBase64
           /\ ~Has(editedAssets, k)

\* a shift-click that selected a range has just been handled
RangeClick ==
    /\ lastEvent'.op = "click"
    /\ lastEvent'.outcome = "ok"
    /\ lastEvent'.shift
    /\ lastEvent'.anchor # "null"

\* the displayed cards between the anchor and the clicked card whose family
\* is the allowed one
RangeMatching ==
    LET a == IndexOfCard(lastEvent'.anchor)
        c == IndexOfCard(lastEvent'.key)
    IN  {cards[i] : i \in {j \in 1..Len(cards) :
                              /\ j >= Min(a, c) /\ j <= Max(a, c)
                              /\ cards[j] \notin hiddenCards
                              /\ GroupType(assetData[cards[j]].type)
                                     = allowedSelectionType'}}

\* C26 as stated: a shift-click range toggles every displayed card of the
\* allowed family between the anchor and the clicked card (an unselected
\* one becomes selected, a selected one becomes unselected) and leaves every
\* other key as it was.
C26_RangeToggles ==
    [][ RangeClick =>
            \A k \in SeqRange(cards) :
                (k \in SeqRange(selectedAssets'))
                    <=> IF k \in RangeMatching
                        THEN k \notin SeqRange(selectedAssets)
                        ELSE k \in SeqRange(selectedAssets)
      ]_vars

\* C26: a shift-click range selects every displayed card of the allowed
\* family between the anchor and the clicked card (an unselected one
\* becomes selected, a selected one stays selected) and leaves every other
\* key as it was.
C26_RangeSelects ==
    [][ RangeClick =>
            \A k \in SeqRange(cards) :
                (k \in SeqRange(selectedAssets'))
                    <=> \/ k \in RangeMatching
                        \/ k \in SeqRange(selectedAssets)
      ]_vars

\* with f2 selected and the anchor on f2, f1 has been shift-clicked: f2 is
\* still selected and f1 has been added after it
C26_Witness ==
    /\ lastEvent.op = "click"
    /\ lastEvent.outcome = "ok"
    /\ lastEvent.shift
    /\ lastEvent.anchor = "f2"
    /\ lastEvent.key = "f1"
    /\ selectedAssets = <<"f2", "f1">>

\* the kind of the card k is the kind a click may select now
Trk_AllowedKind(k) ==
    LET groupType == GroupType(assetData[k].originalType)
    IN  /\ groupType # "null"
        /\ \/ selectedAssets = <<>> /\ excludedAssets = <<>>
           \/ allowedSelectionType = groupType

\* C27: in the select/exclude tracker a click without the shift key, in
\* select mode, on a card of the allowed kind flips its membership: an
\* unselected card that is not excluded is added to selectedAssets and
\* becomes the shift-click anchor, and a selected card is removed.
C27_PlainClickFlipsMembership ==
    [][ \A k \in SeqRange(cards) :
          (Trk_HandleCardClick(k, FALSE) /\ isSelectMode /\ Trk_AllowedKind(k))
            => /\ (k \notin SeqRange(selectedAssets)
                     /\ k \notin SeqRange(excludedAssets)
                     /\ ~assetData[k].isExcluded)
                    => (k \in SeqRange(selectedAssets')
                          /\ lastClickedCard' = k)
               /\ (k \in SeqRange(selectedAssets))
                    => k \notin SeqRange(selectedAssets')
      ]_vars

\* a regular click of an unselected card has thrown while other cards were
\* selected: the selection is as it was and the anchor is another card
C27_Witness ==
    /\ isSelectMode
    /\ lastEvent.op = "click"
    /\ lastEvent.outcome = "threw"
    /\ selectedAssets # <<>>
    /\ "f1" \notin SeqRange(selectedAssets)
    /\ lastClickedCard = "f1"
    /\ pending = <<>>
    /\ dispatch = "idle"

\* what is entered for a dimension is non-numeric, zero or negative
NotPositiveDimension(str) ==
    ~IsNumeral(str) \/ IsZeroNumeral(str) \/ IsNegativeNumeral(str)

C31_ModesExclusive == ~(isSelectMode /\ isExcludeMode)

\* each mode has been switched on by its button while the other was on
C31_Witness ==
    /\ lastEvent.op = "toggleExcludeMode"
    /\ lastEvent.wasSelectMode
    /\ isExcludeMode
    /\ ~isSelectMode
    /\ \E i \in 1..Len(pending) : pending[i] = CbClearAllExclusions

\* C32: once no deferred callback is pending (and no mode button is
\* half-way through its listeners) the exclusion tracker and the registry
\* agree: a key is in excludedAssets exactly when the isExcluded flag of its
\* record in assetData is true.
C32_TrackerAgreesWithRegistry ==
    (pending = <<>> /\ dispatch = "idle")
    => \A k \in DOMAIN assetData :
           (k \in SeqRange(excludedAssets)) <=> assetData[k].isExcluded

\* a regular click in exclude mode has put f1 into excludedAssets and then
\* thrown before the registry was touched
C32_Witness ==
    /\ pending = <<>>
    /\ dispatch = "idle"
    /\ isExcludeMode
    /\ lastEvent.op = "click"
    /\ lastEvent.outcome = "threw"
    /\ "f1" \in SeqRange(excludedAssets)
    /\ ~assetData["f1"].isExcluded
    /\ ~Has(editedAssets, "f1")

\* the steps of the tracker: clicks, mode buttons, select-all and the
\* deferred callbacks
TrackerOps ==
    {"click", "toggleSelectMode", "toggleExcludeMode", "modeButtonListener",
     "selectAll", "callback"}

\* C33: marking or unmarking an asset as excluded never changes its
\* currentBase64 or its type, also when the deferred call of
\* updateAssetInMemory runs while a bulk colour change is running or after
\* it has written: a step that changes the isExcluded flag of a record, or
\* the membership of its key in excludedAssets, leaves the bytes and the
\* type of that record alone, and no step of the tracker changes the bytes
\* or the type of any record.
C33_ExclusionKeepsContent ==
    [][ \A k \in DOMAIN assetData :
          (\/ assetData'[k].isExcluded # assetData[k].isExcluded
           \/ (k \in SeqRange(excludedAssets'))
                 # (k \in SeqRange(excludedAssets))
           \/ lastEvent'.op \in TrackerOps)
            => /\ assetData'[k].currentBase64 = assetData[k].currentBase64
               /\ assetData'[k].type = assetData[k].type
      ]_vars

\* f1 was recoloured by a bulk colour change and then marked excluded by a
\* deferred callback while another colour change was still running
C33_Witness ==
    /\ lastEvent.op = "callback"
    /\ lastEvent.cb = "selectAll"
    /\ "f1" \in SeqRange(excludedAssets)
    /\ assetData["f1"].isExcluded
    /\ Has(editedAssets, "f1")
    /\ editedAssets["f1"].isExcluded
    /\ assetData["f1"].currentBase64 # assetData["f1"].originalBase64
    /\ running # <<>>

\* exclude mode has just been switched off, by its own button or by the
\* select button, while k was excluded
ExcludeModeLeftWith(k) ==
    /\ \/ lastEvent.op = "toggleExcludeMode" /\ ~isExcludeMode
       \/ lastEvent.op = "toggleSelectMode" /\ lastEvent.wasExcludeMode
    /\ dispatch = "modeButton"
    /\ k \in SeqRange(excludedAssets)

\* C34: when exclude mode is switched off, directly or by switching to
\* select mode, every asset that was in excludedAssets then has, sooner or
\* later, isExcluded false in the registry while excludedAssets is empty, so
\* that the archive holds it again.
C34_LeavingExcludeModeClears ==
    \A k \in SeqRange(RenderAssetCards(RaceManifest)) :
        ExcludeModeLeftWith(k)
            ~> (/\ excludedAssets = <<>>
                /\ ~assetData[k].isExcluded
                /\ ZipIncludes(assetData, editedAssets, k))

\* exclude mode is off, every callback has run and nothing is in
\* excludedAssets, and f1 is still flagged as excluded and left out of the
\* archive
C34_Witness ==
    /\ ~isExcludeMode
    /\ ~isSelectMode
    /\ pending = <<>>
    /\ dispatch = "idle"
    /\ excludedAssets = <<>>
    /\ assetData["f1"].isExcluded
    /\ ~ZipIncludes(assetData, editedAssets, "f1")

\* originalAssetInfo.isExcluded: records of the generation without the
\* exclusion flag have no such field, and the test reads undefined
RecordExcluded(rec) == "isExcluded" \in DOMAIN rec /\ rec.isExcluded

\* C35: what downloadAllAssetsAsZip writes for an asset that is not excluded
\* is the asset's currentBase64: a key with an entry in editedAssets has the
\* entry's base64Data and type equal to the currentBase64 and the type of
\* its record, and a key without an entry has currentBase64 equal to
\* originalBase64.
C35_ArchiveBytesAreCurrent ==
    \A k \in DOMAIN assetData :
        /\ Has(editedAssets, k)
             => /\ editedAssets[k].base64Data = assetData[k].currentBase64
                /\ editedAssets[k].type = assetData[k].type
        /\ ~Has(editedAssets, k)
             => assetData[k].currentBase64 = assetData[k].originalBase64
        /\ ~RecordExcluded(assetData[k])
             => ZipFileContent(assetData, editedAssets, k)
                    = assetData[k].currentBase64

\* after an import into the registry without the exclusion flag f1 has no
\* entry in editedAssets and still holds edited bytes: the archive would be
\* given its original bytes
C35_Witness ==
    /\ lastEvent.op = "import"
    /\ lastEvent.outcome = "ok"
    /\ ~Has(editedAssets, "f1")
    /\ ZipFileContent(assetData, editedAssets, "f1")
           = assetData["f1"].originalBase64
    /\ ZipFileContent(assetData, editedAssets, "f1")
           # assetData["f1"].currentBase64



\* C36: every texture operation that has started (handleCreateNewTexture,
\* handleApplyUploadedImage) and waits for an image eventually finishes
\* with its button enabled again, given that every image load eventually
\* reports success or failure, also when the original image of a selected
\* asset does not decode.
C36_OperationsFinish ==
    \A n \in 1..MaxOperations :
        (Len(running) >= n /\ running[n].stage # "done")
            ~> (/\ Len(running) >= n
                /\ running[n].stage = "done"
                /\ ButtonOf(running[n].op) \notin disabledButtons)

\* the original image of an asset of a started operation has reported an
\* error
C36_Witness ==
    /\ lastEvent.op = "originalImage"
    /\ lastEvent.outcome = "error"
    /\ running[lastEvent.n].stage = "noListener"
    /\ ~ImageLoads(assetData[lastEvent.key].originalDataUrl)


\* C37: once every pending read and decode has finished, the decoded buffer
\* that applyUploadedAudio uses belongs to the upload chosen last; a decode
\* that completes late does not revive what a later event has reset.  The
\* audio modal is only closed by closeBulkOperationsModal, which sets the
\* buffer to null, and a file can only be chosen while the modal is open:
\* while the modal is closed and nothing is being decoded, there is no
\* buffer.
C37_LateDecodeDoesNotRevive ==
    ("mp3" \notin openModals /\ decoding = {}) => uploadedAudioBuffer = <<>>

\* a decode has completed while the audio modal was closed
C37_Witness ==
    /\ lastEvent.op = "audioDecoded"
    /\ "mp3" \notin openModals
    /\ decoding = {}

\* C38: in the on-demand generation, loading an asset's data, by the Load
\* Data button or when the edit modal is opened for a selection, does not
\* mark the asset as edited: no asset that has a data URL equal to its
\* original data URL has isEdited set.
C38_LoadingIsNotEditing ==
    \A k \in DOMAIN assetData :
        (/\ "dataUrl" \in DOMAIN assetData[k]
         /\ assetData[k].dataUrl # <<>>
         /\ assetData[k].dataUrl = assetData[k].originalDataUrl)
            => ~assetData[k].isEdited

\* the edit modal was opened for a selection with an asset that had no data
\* yet, and that asset now has its original data URL
C38_Witness ==
    /\ lastEvent.op = "editSelected"
    /\ lastEvent.outcome = "shown"
    /\ \E i \in 1..Len(lastEvent.loaded) :
           LET k == lastEvent.loaded[i]
           IN  /\ assetData[k].dataUrl # <<>>
               /\ assetData[k].dataUrl = assetData[k].originalDataUrl

====
